---- MODULE Spec2Model ----
(***************************************************************************)
(* A model of the UFOMap octree core (ufo/map/octree/octree_base.h): the   *)
(* node blocks, the split-on-descent apply, the modified/propagate         *)
(* protocol, pruning, the block allocator with its free pools, clear and   *)
(* destruction.                                                            *)
(***************************************************************************)
EXTENDS Integers, Sequences, FiniteSets, TLC

\* ------------------------------------------------------------------------
\* Bounds of the model
\* ------------------------------------------------------------------------
\* number of block addresses the system allocator can hand out
NumBlocks == 5
\* payload values are 0..MaxPayload (0 is the payload of a fresh root)
MaxPayload == 1
\* calls the two threads of the concurrent specification make in all
MaxCalls == 4

\* ------------------------------------------------------------------------
\* Program constants
\* ------------------------------------------------------------------------
minDepthLevels == 3
maxDepthLevels == 22
nullptr == 0

\* depth_levels given to the constructor
InitDepthLevels == minDepthLevels + 1

Indices == 0 .. 7
Values == 0 .. MaxPayload
BlockIds == 1 .. NumBlocks

Pow2(n) == 2 ^ n

\* ------------------------------------------------------------------------
\* Code (code.h): low 5 bits hold the depth, the Morton code sits above them
\* ------------------------------------------------------------------------
\* Code(code, depth) that keeps the bits of code below depth
CodeUncut(code, depth) == code * 32 + depth

Code(code, depth) ==
    ((code \div Pow2(3 * depth)) * Pow2(3 * depth + 5)) + depth

CodeDepth(c) == c % 32

CodeIndex(c, depth) == (c \div Pow2(3 * depth + 5)) % 8

CodeToDepth(c, depth) == Code(c \div 32, depth)

\* Code::code()
CodeCode(c) == c \div 32

\* Code::child(index): no test of index
CodeChild(c, index) ==
    IF CodeDepth(c) = 0 THEN c
    ELSE Code(CodeCode(c) + index * Pow2(3 * (CodeDepth(c) - 1)), CodeDepth(c) - 1)

\* Code::sibling(index): no test of index
CodeSibling(c, index) ==
    LET d == CodeDepth(c)
        sc == (c \div Pow2(5 + 3 * (d + 1))) * Pow2(3 * (d + 1)) IN
    Code(sc + index * Pow2(3 * d), d)

\* Code::parent(parent_depth): the outcomes of the call.  The only test is
\* assert(parent_depth >= depth()): a build with assertions aborts, a
\* build with NDEBUG returns the code cut at parent_depth
CodeParent(c, parent_depth) ==
    IF parent_depth >= CodeDepth(c)
    THEN {[kind |-> "code", code |-> Code(CodeCode(c), parent_depth)]}
    ELSE {[kind |-> "abort"],
          [kind |-> "code", code |-> Code(CodeCode(c), parent_depth)]}

\* ------------------------------------------------------------------------
\* Nodes.  An InnerNode carries eight slots: a payload per slot, the leaf
\* and modified bit fields, and one pointer to the block of its children
\* (eight nodes).  A LeafNode uses val and modified only.
\* ------------------------------------------------------------------------
AllBits == Indices
NoBits == {}

\* a value-initialised node of a new block
DefaultNode ==
    [val |-> [i \in Indices |-> 0], leaf |-> AllBits, modified |-> NoBits,
     children |-> nullptr]

DefaultBlock == [i \in Indices |-> DefaultNode]

\* The root is addressed as <<0, 0>>, a node of block b as <<b, i>>
RootRef == <<0, 0>>

GetNode(S, r) == IF r[1] = 0 THEN S.root_ ELSE S.blocks[r[1]][r[2]]

SetNode(S, r, n) ==
    IF r[1] = 0 THEN [S EXCEPT !.root_ = n]
    ELSE [S EXCEPT !.blocks[r[1]][r[2]] = n]

Fault(S, what) == IF S.fault = "none" THEN [S EXCEPT !.fault = what] ELSE S

\* innerChild / leafChild: *node.children [child_index]
ChildRef(S, r, i) == <<GetNode(S, r).children, i>>

HasBlock(S, r) == GetNode(S, r).children # nullptr

\* ------------------------------------------------------------------------
\* Payload hooks of the node types and of the derived map
\* ------------------------------------------------------------------------
\* a fill that value-initialises the eight slots
FillDefault(child, parent, index) ==
    [child EXCEPT !.val = [j \in Indices |-> 0],
                  !.modified = IF index \in parent.modified THEN AllBits ELSE NoBits,
                  !.leaf = AllBits]

\* node.fill(parent, index): seed the eight slots from the parent's slot
Fill(child, parent, index) ==
    [child EXCEPT !.val = [j \in Indices |-> parent.val[index]],
                  !.modified = IF index \in parent.modified THEN AllBits ELSE NoBits,
                  !.leaf = AllBits]

\* node.clear()
NodeClear(n) == [n EXCEPT !.val = [j \in Indices |-> 0], !.modified = NoBits]

\* node.isCollapsible(): the eight slots agree (and, for an inner node, are
\* all leaves)
IsCollapsibleNode(n) ==
    /\ \A j \in Indices : n.val[j] = n.val[0]
    /\ n.leaf = AllBits

\* derived().updateNode(node, i, child) throws when called for slot i of
\* node r: the call names the slot in the field throw_at of the map record
Throws(S, r, i) == "throw_at" \in DOMAIN S /\ S.throw_at = <<r, i>>

RECURSIVE MaxOver(_, _)
MaxOver(val, j) ==
    IF j = 0 THEN val[0]
    ELSE LET m == MaxOver(val, j - 1) IN IF val[j] > m THEN val[j] ELSE m

\* derived().updateNode(node, i, child): the aggregate of the child's slots
Aggregate(child) == MaxOver(child.val, 7)

\* the argument of apply that stands for a function leaving the node as it is
f_noop == 0 - 1

\* function f of apply: write payload v to one slot
ApplyF(n, index, v) == IF v = f_noop THEN n ELSE [n EXCEPT !.val[index] = v]

\* function f2 of apply: write payload v to the eight slots of a node
ApplyF2(n, v) == IF v = f_noop THEN n ELSE [n EXCEPT !.val = [j \in Indices |-> v]]

\* ------------------------------------------------------------------------
\* Block allocator
\* ------------------------------------------------------------------------
MinOf(set) == CHOOSE x \in set : \A y \in set : x <= y

\* operator new throws std::bad_alloc once the system has given out the
\* blocks it has left: a call names that number in the field alloc_budget of
\* the map record
AllocFails(S) == "alloc_budget" \in DOMAIN S /\ S.alloc_budget = 0
Spend(S) == IF "alloc_budget" \in DOMAIN S THEN [S EXCEPT !.alloc_budget = @ - 1] ELSE S

\* new InnerNodeBlock() / new LeafNodeBlock()
NewBlock(S, r) ==
    LET free == {b \in BlockIds : S.owner[b] = "sys"} IN
    IF free = {} \/ AllocFails(S) THEN Fault(S, "bad_alloc")
    ELSE LET b == MinOf(free)
             n == GetNode(S, r) IN
         Spend([SetNode(S, r, [n EXCEPT !.children = b])
                   EXCEPT !.owner[b] = "tree", !.blocks[b] = DefaultBlock])

takeExistingInnerChildren(S, r) ==
    LET b == Head(S.free_inner_blocks)
        n == GetNode(S, r) IN
    [SetNode(S, r, [n EXCEPT !.children = b])
        EXCEPT !.owner[b] = "tree", !.free_inner_blocks = Tail(@)]

takeExistingLeafChildren(S, r) ==
    LET b == Head(S.free_leaf_blocks)
        n == GetNode(S, r) IN
    [SetNode(S, r, [n EXCEPT !.children = b])
        EXCEPT !.owner[b] = "tree", !.free_leaf_blocks = Tail(@)]

allocateInnerChildren(S, r) ==
    IF S.ReuseNodes /\ S.free_inner_blocks # <<>>
    THEN takeExistingInnerChildren(S, r)
    ELSE NewBlock(S, r)

allocateLeafChildren(S, r) ==
    IF S.ReuseNodes /\ S.free_leaf_blocks # <<>>
    THEN takeExistingLeafChildren(S, r)
    ELSE NewBlock(S, r)

\* delete &children(node); node.children = nullptr
DeleteBlock(S, r) ==
    LET n == GetNode(S, r)
        b == n.children IN
    IF b = nullptr THEN S
    ELSE IF S.owner[b] # "tree" THEN Fault(S, "double_free")
    ELSE [SetNode(S, r, [n EXCEPT !.children = nullptr])
             EXCEPT !.owner[b] = "sys", !.blocks[b] = DefaultBlock]

addExistingInnerChildren(S, r) ==
    LET b == GetNode(S, r).children IN
    [S EXCEPT !.free_inner_blocks = <<b>> \o @, !.owner[b] = "pool"]

addExistingLeafChildren(S, r) ==
    LET b == GetNode(S, r).children IN
    [S EXCEPT !.free_leaf_blocks = <<b>> \o @, !.owner[b] = "pool"]

deallocateInnerChildren(S, r, prune) ==
    IF prune THEN DeleteBlock(S, r)
    ELSE IF S.ReuseNodes
    THEN LET S1 == addExistingInnerChildren(S, r) IN
         SetNode(S1, r, [GetNode(S1, r) EXCEPT !.children = nullptr])
    ELSE S

deallocateLeafChildren(S, r, prune) ==
    IF prune THEN DeleteBlock(S, r)
    ELSE IF S.ReuseNodes
    THEN LET S1 == addExistingLeafChildren(S, r) IN
         SetNode(S1, r, [GetNode(S1, r) EXCEPT !.children = nullptr])
    ELSE S

\* ------------------------------------------------------------------------
\* Create children (split a leaf slot)
\* ------------------------------------------------------------------------
\* createLeafChildren that moves the counters as createInnerChildren does
createLeafChildrenAsInner(S, r, index) ==
    LET n == GetNode(S, r)
        Unleaf(S3) == SetNode(S3, r, [GetNode(S3, r) EXCEPT !.leaf = @ \ {index}])
        Count(S2) == Unleaf([S2 EXCEPT !.num_inner_leaf_nodes = @ + 7,
                                       !.num_inner_nodes = @ + 1])
        FillChild(S1, c) == Count(SetNode(S1, c, Fill(GetNode(S1, c), GetNode(S1, r), index)))
        Allocated(S1) == IF S1.fault # "none" THEN S1
                         ELSE FillChild(S1, ChildRef(S1, r, index)) IN
    IF S.fault # "none" \/ index \notin n.leaf THEN S
    ELSE Allocated(IF n.children = nullptr THEN allocateLeafChildren(S, r) ELSE S)

createLeafChildren(S, r, index) ==
    LET n == GetNode(S, r)
        \* node.leaf[index] = false
        Unleaf(S3) == SetNode(S3, r, [GetNode(S3, r) EXCEPT !.leaf = @ \ {index}])
        Count(S2) == Unleaf([S2 EXCEPT !.num_leaf_nodes = @ + 8,
                                       !.num_inner_leaf_nodes = @ - 1,
                                       !.num_inner_nodes = @ + 1])
        \* leafChild(node, index).fill(node, index)
        FillChild(S1, c) == Count(SetNode(S1, c, Fill(GetNode(S1, c), GetNode(S1, r), index)))
        Allocated(S1) == IF S1.fault # "none" THEN S1
                         ELSE FillChild(S1, ChildRef(S1, r, index)) IN
    IF S.fault # "none" \/ index \notin n.leaf THEN S
    ELSE Allocated(IF n.children = nullptr THEN allocateLeafChildren(S, r) ELSE S)

\* createInnerChildren that clears leaf[index] before it allocates
createInnerChildrenEarly(S, r, index, depth) ==
    LET n == GetNode(S, r)
        Count(S2) == [S2 EXCEPT !.num_inner_leaf_nodes = @ + 7,
                                !.num_inner_nodes = @ + 1]
        FillChild(S1, c) == Count(SetNode(S1, c, Fill(GetNode(S1, c), n, index)))
        Allocated(S1) == IF S1.fault # "none" THEN S1
                         ELSE FillChild(S1, ChildRef(S1, r, index))
        Unleafed(S0) == Allocated(IF n.children = nullptr
                                  THEN allocateInnerChildren(S0, r) ELSE S0) IN
    IF S.fault # "none" \/ index \notin n.leaf THEN S
    ELSE Unleafed(SetNode(S, r, [n EXCEPT !.leaf = @ \ {index}]))

createInnerChildren(S, r, index, depth) ==
    LET n == GetNode(S, r)
        \* node.leaf[index] = false
        Unleaf(S3) == SetNode(S3, r, [GetNode(S3, r) EXCEPT !.leaf = @ \ {index}])
        Count(S2) == Unleaf([S2 EXCEPT !.num_inner_leaf_nodes = @ + 7,
                                       !.num_inner_nodes = @ + 1])
        \* innerChild(node, index).fill(node, index)
        FillChild(S1, c) == Count(SetNode(S1, c, Fill(GetNode(S1, c), GetNode(S1, r), index)))
        Allocated(S1) == IF S1.fault # "none" THEN S1
                         ELSE FillChild(S1, ChildRef(S1, r, index)) IN
    IF S.fault # "none" \/ index \notin n.leaf THEN S
    ELSE Allocated(IF n.children = nullptr THEN allocateInnerChildren(S, r) ELSE S)

\* ------------------------------------------------------------------------
\* Delete children (turn slots back into leaves)
\* ------------------------------------------------------------------------
\* deleteLeafChildren up to its last statement: the slots become leaves, the
\* children are cleared, the counters move
deleteLeafChildrenMark(S, r, indices) ==
    LET n == GetNode(S, r)
        new_leaf == indices \ n.leaf IN
    IF S.fault # "none" \/ new_leaf = {} THEN S
    ELSE IF n.children = nullptr THEN Fault(S, "null_deref")
    ELSE LET b == n.children
             S1 == SetNode(S, r, [n EXCEPT !.leaf = @ \cup indices]) IN
         [S1 EXCEPT !.blocks[b] =
                 [i \in Indices |-> IF i \in new_leaf THEN NodeClear(@[i]) ELSE @[i]],
               !.num_leaf_nodes = @ - 8 * Cardinality(new_leaf),
               !.num_inner_leaf_nodes = @ + Cardinality(new_leaf),
               !.num_inner_nodes = @ - Cardinality(new_leaf)]

deleteLeafChildren(S, r, indices, manual_pruning) ==
    LET new_leaf == indices \ GetNode(S, r).leaf
        S2 == deleteLeafChildrenMark(S, r, indices) IN
    IF S2.fault # "none" \/ new_leaf = {} THEN S2
    ELSE IF GetNode(S2, r).leaf = AllBits
    THEN deallocateLeafChildren(S2, r, manual_pruning \/ S2.automatic_prune)
    ELSE S2

RECURSIVE deleteChildren(_, _, _, _, _)
RECURSIVE deleteChildrenLoop(_, _, _, _, _, _)

\* the loop "for i in 0..7: if new_leaf[i]" of deleteChildren
deleteChildrenLoop(S, r, new_leaf, i, depth, manual_pruning) ==
    IF i = 8 \/ S.fault # "none" THEN S
    ELSE IF i \notin new_leaf
    THEN deleteChildrenLoop(S, r, new_leaf, i + 1, depth, manual_pruning)
    ELSE IF GetNode(S, r).children = nullptr THEN Fault(S, "null_deref")
    ELSE LET c == ChildRef(S, r, i)
             \* deleteChildren(child, depth - 1, manual_pruning)
             S1 == deleteChildren(S, c, AllBits \ GetNode(S, c).leaf, depth - 1,
                                  manual_pruning)
             S2 == IF S1.fault # "none" THEN S1
                   ELSE SetNode(S1, c, NodeClear(GetNode(S1, c))) IN
         deleteChildrenLoop(S2, r, new_leaf, i + 1, depth, manual_pruning)

\* deleteChildren without the test "if (node.leaf.all())": the block is given
\* up while sibling slots still have children in it
deleteChildrenEager(S, r, indices, depth, manual_pruning) ==
    LET n == GetNode(S, r)
        new_leaf == indices \ n.leaf IN
    IF S.fault # "none" \/ new_leaf = {} THEN S
    ELSE LET S1 == SetNode(S, r, [n EXCEPT !.leaf = @ \cup indices])
             S2 == IF depth = 1 THEN deleteLeafChildrenMark(S, r, indices)
                   ELSE deleteChildrenLoop(S1, r, new_leaf, 0, depth, manual_pruning) IN
         IF S2.fault # "none" THEN S2
         ELSE IF depth = 1
         THEN deallocateLeafChildren(S2, r, manual_pruning \/ S2.automatic_prune)
         ELSE deallocateInnerChildren(S2, r, manual_pruning \/ S2.automatic_prune)

deleteChildren(S, r, indices, depth, manual_pruning) ==
    IF depth = 1 THEN deleteLeafChildren(S, r, indices, manual_pruning)
    ELSE LET n == GetNode(S, r)
             new_leaf == indices \ n.leaf IN
         IF S.fault # "none" \/ new_leaf = {} THEN S
         ELSE LET S1 == SetNode(S, r, [n EXCEPT !.leaf = @ \cup indices])
                  S2 == deleteChildrenLoop(S1, r, new_leaf, 0, depth, manual_pruning) IN
              IF S2.fault # "none" THEN S2
              ELSE LET S3 == [S2 EXCEPT
                                 !.num_inner_leaf_nodes = @ - 7 * Cardinality(new_leaf),
                                 !.num_inner_nodes = @ - Cardinality(new_leaf)] IN
                   IF GetNode(S3, r).leaf = AllBits
                   THEN deallocateInnerChildren(S3, r, manual_pruning \/ S3.automatic_prune)
                   ELSE S3

\* ------------------------------------------------------------------------
\* Prune and update
\* ------------------------------------------------------------------------
\* isCollapsible(node, indices, depth): reads the child of every index
isCollapsible(S, r, indices) ==
    {i \in indices : IsCollapsibleNode(GetNode(S, ChildRef(S, r, i)))}

\* prune that collapses nothing
pruneNothing(S, r, indices, depth) == S

\* prune that collapses the slots without asking isCollapsible
pruneAll(S, r, indices, depth) == deleteChildren(S, r, indices, depth, FALSE)

prune(S, r, indices, depth) ==
    IF S.fault # "none" \/ indices = {} THEN S
    ELSE IF GetNode(S, r).children = nullptr THEN Fault(S, "null_deref")
    ELSE LET collapsible == isCollapsible(S, r, indices) IN
         IF collapsible # {} THEN deleteChildren(S, r, collapsible, depth, FALSE)
         ELSE S

\* the loops of updateNode: derived().updateNode(node, i, children[i]) for
\* every index
\* the loops of updateNode when the hook has changed the payload of the slot
\* before it throws
updateNodeLoopDirty(S, r, indices) ==
    IF S.fault # "none" \/ indices = {} THEN S
    ELSE IF GetNode(S, r).children = nullptr THEN Fault(S, "null_deref")
    ELSE LET n == GetNode(S, r)
             thrown == {i \in indices : Throws(S, r, i)}
             Updated(S1) == IF thrown = {} THEN S1 ELSE Fault(S1, "hook_throw") IN
         Updated(SetNode(S, r,
                     [n EXCEPT !.val = [i \in Indices |->
                         IF i \in indices
                         THEN Aggregate(GetNode(S, ChildRef(S, r, i)))
                         ELSE @[i]]]))

updateNodeLoop(S, r, indices) ==
    IF S.fault # "none" \/ indices = {} THEN S
    ELSE IF GetNode(S, r).children = nullptr THEN Fault(S, "null_deref")
    ELSE LET n == GetNode(S, r)
             thrown == {i \in indices : Throws(S, r, i)}
             \* the indices the loop gets through
             done == IF thrown = {} THEN indices
                     ELSE {i \in indices : i < MinOf(thrown)}
             Updated(S1) == IF thrown = {} THEN S1 ELSE Fault(S1, "hook_throw") IN
         Updated(SetNode(S, r,
                     [n EXCEPT !.val = [i \in Indices |->
                         IF i \in done
                         THEN Aggregate(GetNode(S, ChildRef(S, r, i)))
                         ELSE @[i]]]))

\* updateNode with the prune before the hooks
updateNodePruneFirst(S, r, indices, depth) ==
    updateNodeLoop(prune(S, r, indices, depth), r, indices)

updateNode(S, r, indices, depth) == prune(updateNodeLoop(S, r, indices), r, indices, depth)

\* ------------------------------------------------------------------------
\* Propagate
\* ------------------------------------------------------------------------
ResetModifiedOf(S, r) == SetNode(S, r, [GetNode(S, r) EXCEPT !.modified = NoBits])

RECURSIVE propagateModifiedRecurs(_, _, _, _, _)
RECURSIVE propagateChildrenLoop(_, _, _, _, _, _, _)

\* the loop over the modified parents of propagateModifiedRecurs
propagateChildrenLoop(S, r, modified_parent, index, depth, max_depth, KeepModified) ==
    IF index = 8 \/ S.fault # "none" THEN S
    ELSE IF index \notin modified_parent
    THEN propagateChildrenLoop(S, r, modified_parent, index + 1, depth, max_depth,
                               KeepModified)
    ELSE IF depth = 1 /\ KeepModified
    THEN propagateChildrenLoop(S, r, modified_parent, index + 1, depth, max_depth,
                               KeepModified)
    ELSE IF GetNode(S, r).children = nullptr THEN Fault(S, "null_deref")
    ELSE LET c == ChildRef(S, r, index)
             S1 == IF depth = 1
                   THEN ResetModifiedOf(S, c)
                   ELSE propagateModifiedRecurs(S, c, depth - 1, max_depth,
                                                KeepModified) IN
         propagateChildrenLoop(S1, r, modified_parent, index + 1, depth, max_depth,
                               KeepModified)

propagateModifiedRecurs(S, r, depth, max_depth, KeepModified) ==
    LET n == GetNode(S, r)
        modified_parent == n.modified \ n.leaf IN
    IF S.fault # "none" THEN S
    ELSE IF modified_parent = {}
    THEN (IF ~KeepModified /\ depth <= max_depth THEN ResetModifiedOf(S, r) ELSE S)
    ELSE LET S1 == propagateChildrenLoop(S, r, modified_parent, 0, depth, max_depth,
                                         KeepModified) IN
         IF S1.fault # "none" \/ ~(depth <= max_depth) THEN S1
         ELSE LET S2 == updateNode(S1, r, modified_parent, depth) IN
              IF S2.fault # "none" \/ KeepModified THEN S2
              ELSE ResetModifiedOf(S2, r)

\* propagateModified(InnerNode&, ...) that resets the bit of the slot whatever
\* keep_modified is
propagateModifiedAtReset(S, r, index, depth, keep_modified, max_depth) ==
    LET n == GetNode(S, r) IN
    IF S.fault # "none" \/ index \notin n.modified THEN S
    ELSE LET c == ChildRef(S, r, index)
             S1 == IF depth = 1 /\ keep_modified THEN S
                   ELSE IF n.children = nullptr THEN Fault(S, "null_deref")
                   ELSE IF depth = 1 THEN ResetModifiedOf(S, c)
                   ELSE propagateModifiedRecurs(S, c, depth - 1, max_depth,
                                                keep_modified) IN
         IF S1.fault # "none" \/ ~(depth <= max_depth) THEN S1
         ELSE LET S2 == updateNode(S1, r, {index}, depth) IN
              IF S2.fault # "none" THEN S2
              ELSE SetNode(S2, r, [GetNode(S2, r) EXCEPT !.modified = @ \ {index}])

\* propagateModified(InnerNode& node, index, depth, keep_modified, max_depth)
propagateModifiedAt(S, r, index, depth, keep_modified, max_depth) ==
    LET n == GetNode(S, r) IN
    IF S.fault # "none" \/ index \notin n.modified THEN S
    ELSE LET c == ChildRef(S, r, index)
             S1 == IF depth = 1 /\ keep_modified THEN S
                   ELSE IF n.children = nullptr THEN Fault(S, "null_deref")
                   ELSE IF depth = 1 THEN ResetModifiedOf(S, c)
                   ELSE propagateModifiedRecurs(S, c, depth - 1, max_depth,
                                                keep_modified) IN
         IF S1.fault # "none" \/ ~(depth <= max_depth) THEN S1
         ELSE LET S2 == updateNode(S1, r, {index}, depth) IN
              IF S2.fault # "none" \/ keep_modified THEN S2
              ELSE SetNode(S2, r, [GetNode(S2, r) EXCEPT !.modified = @ \ {index}])

rootDepth(S) == S.depth_levels - 1
rootIndex == 0

\* propagateModified(keep_modified, max_depth) on the whole map
propagateModified(S, keep_modified, max_depth) ==
    propagateModifiedAt(S, RootRef, rootIndex, rootDepth(S), keep_modified, max_depth)

\* ------------------------------------------------------------------------
\* Apply
\* ------------------------------------------------------------------------
\* modified.set() in place of modified[index] = true
SetModifiedBitAll(S, r, index) ==
    SetNode(S, r, [GetNode(S, r) EXCEPT !.modified = AllBits])

SetModifiedBit(S, r, index) ==
    SetNode(S, r, [GetNode(S, r) EXCEPT !.modified = @ \cup {index}])

SetAllModified(S, r) == SetNode(S, r, [GetNode(S, r) EXCEPT !.modified = AllBits])

RECURSIVE applyAllRecurs(_, _, _, _, _)
RECURSIVE applyAllLoop(_, _, _, _, _, _)

\* the loop "for i in 0..7: if indices[i]" of applyAllRecurs
applyAllLoop(S, r, indices, i, depth, v) ==
    IF i = 8 \/ S.fault # "none" THEN S
    ELSE IF i \notin indices THEN applyAllLoop(S, r, indices, i + 1, depth, v)
    ELSE IF GetNode(S, r).children = nullptr THEN Fault(S, "null_deref")
    ELSE LET c == ChildRef(S, r, i)
             children == GetNode(S, c)
             \* children.modified.set(), then the next turn of the loop
             Written(S1) == applyAllLoop(IF S1.fault # "none" THEN S1
                                         ELSE SetAllModified(S1, c),
                                         r, indices, i + 1, depth, v) IN
         Written(IF depth = 1 \/ children.leaf = AllBits
                 THEN SetNode(S, c, ApplyF2(children, v))
                 ELSE applyAllRecurs(
                          SetNode(S, c, [children EXCEPT !.val = [j \in Indices |->
                                            IF j \in children.leaf /\ v # f_noop THEN v ELSE @[j]]]),
                          c, AllBits \ children.leaf, depth - 1, v))

applyAllRecurs(S, r, indices, depth, v) == applyAllLoop(S, r, indices, 0, depth, v)

RECURSIVE applyDescend(_, _, _, _, _)
\* the descent loop of apply(InnerNode& node, depth, code, f, f2); yields the
\* state and the node reached as <<S, cur, depth>>
applyDescend(S, cur, depth, min_depth, code) ==
    IF min_depth = depth \/ S.fault # "none" THEN <<S, cur, depth>>
    ELSE LET index == CodeIndex(code, depth)
             \* cur = &innerChild(*cur, index); --depth
             Down(S2) == applyDescend(S2, ChildRef(S2, cur, index), depth - 1,
                                      min_depth, code)
             \* cur->modified[index] = true
             Created(S1) == IF S1.fault # "none" THEN <<S1, cur, depth>>
                            ELSE Down(SetModifiedBit(S1, cur, index)) IN
         Created(createInnerChildren(S, cur, index, depth))

Max(a, b) == IF a > b THEN a ELSE b

\* apply(InnerNode& node, depth, code, f, f2)
applyAt(S, r, depth0, code, v) ==
    LET min_depth == Max(CodeDepth(code), 1)
        child_index == CodeIndex(code, 0)
        \* f(child, child_index); child.modified[child_index] = true
        WriteChild(S3, child) ==
            SetModifiedBit(SetNode(S3, child,
                                   ApplyF(GetNode(S3, child), child_index, v)),
                           child, child_index)
        \* cur->modified[index] = true; LeafNode& child = leafChild(*cur, index)
        LeafCreated(S2, cur, index) ==
            IF S2.fault # "none" THEN S2
            ELSE WriteChild(SetModifiedBit(S2, cur, index), ChildRef(S2, cur, index))
        \* cur->modified[index] = true   (the inner branches)
        InnerWritten(S2, cur, index) ==
            IF S2.fault # "none" THEN S2 ELSE SetModifiedBit(S2, cur, index)
        Target(S1, cur, depth, index) ==
            IF S1.fault # "none" THEN S1
            ELSE IF CodeDepth(code) = 0
            THEN LeafCreated(createLeafChildren(S1, cur, index), cur, index)
            ELSE InnerWritten(IF index \in GetNode(S1, cur).leaf
                              THEN SetNode(S1, cur,
                                           ApplyF(GetNode(S1, cur), index, v))
                              ELSE applyAllRecurs(S1, cur, {index}, depth, v),
                              cur, index)
        Reached(d) == Target(d[1], d[2], d[3], CodeIndex(code, d[3])) IN
    Reached(applyDescend(S, r, depth0, min_depth, code))

\* apply(Code, ...) that writes the root in place of refusing a code above it
applyClamped(S, code, v, propagate) ==
    applyAt(S, RootRef, rootDepth(S),
            IF CodeDepth(code) > rootDepth(S) THEN CodeToDepth(code, rootDepth(S))
            ELSE code, v)

\* what apply(Code, ...) returns: the empty Node() for a code above the
\* root, else the node written
applyReturn(S, code) == IF CodeDepth(code) > rootDepth(S) THEN "Node()" ELSE "node"

\* apply(Code code, f, f2, propagate)
apply(S, code, v, propagate) ==
    IF CodeDepth(code) > rootDepth(S) THEN S
    ELSE LET Applied(S1) == IF propagate
                            THEN propagateModified(S1, FALSE, maxDepthLevels)
                            ELSE S1 IN
         Applied(applyAt(S, RootRef, rootDepth(S), code, v))

\* ------------------------------------------------------------------------
\* Lookup
\* ------------------------------------------------------------------------
RECURSIVE leafDescend(_, _, _, _, _)
\* the loop of leafNodeAndDepth: follows code.index(depth) at every depth
leafDescend(S, node, depth, min_depth, code) ==
    LET index == CodeIndex(code, depth) IN
    IF min_depth # depth /\ index \notin GetNode(S, node).leaf
    THEN leafDescend(S, ChildRef(S, node, index), depth - 1, min_depth, code)
    ELSE <<node, depth>>

\* leafNodeAndDepth(code): <<node, depth>>
leafNodeAndDepth(S, code) ==
    LET d == leafDescend(S, RootRef, rootDepth(S), Max(CodeDepth(code), 1), code)
        node == d[1]
        depth == d[2]
        index == CodeIndex(code, depth) IN
    IF CodeDepth(code) = 0 /\ index \notin GetNode(S, node).leaf
    THEN <<ChildRef(S, node, index), 0>>
    ELSE <<node, depth>>

RECURSIVE innerDescend(_, _, _, _, _)
\* the loop of innerNodeAndDepth: the loop body declares a new index, so
\* the index tested and followed stays code.index(rootDepth())
innerDescend(S, node, depth, min_depth, index) ==
    IF min_depth # depth /\ index \notin GetNode(S, node).leaf
    THEN innerDescend(S, ChildRef(S, node, index), depth - 1, min_depth, index)
    ELSE <<node, depth>>

\* innerNodeAndDepth(code): <<node, depth>>
innerNodeAndDepth(S, code) ==
    innerDescend(S, RootRef, rootDepth(S), Max(CodeDepth(code), 1),
                 CodeIndex(code, rootDepth(S)))

\* propagateModified(LeafNode& node, index, keep_modified)
propagateModifiedLeaf(S, node, index, keep_modified) ==
    IF keep_modified THEN S
    ELSE SetNode(S, node, [GetNode(S, node) EXCEPT !.modified = @ \ {index}])

\* propagateModified(Code code, keep_modified, max_depth)
propagateModifiedCode(S, code, keep_modified, max_depth) ==
    IF S.fault # "none" THEN S
    ELSE IF CodeDepth(code) = 0
    THEN LET nd == leafNodeAndDepth(S, code) IN
         IF CodeDepth(code) = nd[2]
         THEN propagateModifiedLeaf(S, nd[1], CodeIndex(code, nd[2]), keep_modified)
         ELSE S
    ELSE LET nd == innerNodeAndDepth(S, code) IN
         IF CodeDepth(code) = nd[2]
         THEN propagateModifiedAt(S, nd[1], CodeIndex(code, nd[2]), nd[2], keep_modified,
                                  max_depth)
         ELSE S

\* ------------------------------------------------------------------------
\* Set modified
\* ------------------------------------------------------------------------
RECURSIVE setModifiedParentsRecurs(_, _, _, _)
setModifiedParentsRecurs(S, node, depth, code) ==
    LET index == CodeIndex(code, depth)
        S1 == SetModifiedBit(S, node, index) IN
    IF CodeDepth(code) < depth - 1 /\ index \notin GetNode(S1, node).leaf
    THEN setModifiedParentsRecurs(S1, ChildRef(S1, node, index), depth - 1, code)
    ELSE S1

setModifiedParents(S, code) ==
    IF S.fault # "none" THEN S
    ELSE setModifiedParentsRecurs(S, RootRef, rootDepth(S), code)

RECURSIVE setModifiedRecurs(_, _, _, _)
RECURSIVE setModifiedLoop(_, _, _, _, _)

setModifiedLoop(S, node, i, depth, min_depth) ==
    IF i = 8 \/ S.fault # "none" THEN S
    ELSE IF i \in GetNode(S, node).leaf
    THEN setModifiedLoop(S, node, i + 1, depth, min_depth)
    ELSE setModifiedLoop(setModifiedRecurs(S, ChildRef(S, node, i), depth - 1, min_depth),
                         node, i + 1, depth, min_depth)

setModifiedRecurs(S, node, depth, min_depth) ==
    LET S1 == SetAllModified(S, node)
        n == GetNode(S1, node) IN
    IF n.leaf = AllBits \/ depth = min_depth THEN S1
    ELSE IF n.children = nullptr THEN Fault(S1, "null_deref")
    ELSE IF depth = 1
    THEN [S1 EXCEPT !.blocks[n.children] =
             [i \in Indices |-> [@[i] EXCEPT !.modified = AllBits]]]
    ELSE setModifiedLoop(S1, node, 0, depth, min_depth)

\* setModified(InnerNode& node, index, depth, min_depth)
setModifiedAt(S, node, index, depth, min_depth) ==
    LET S1 == IF min_depth <= depth THEN SetModifiedBit(S, node, index) ELSE S IN
    IF ~(min_depth < depth) THEN S1
    ELSE IF GetNode(S1, node).children = nullptr THEN Fault(S1, "null_deref")
    ELSE IF depth = 1 THEN SetAllModified(S1, ChildRef(S1, node, index))
    ELSE setModifiedRecurs(S1, ChildRef(S1, node, index), depth - 1, min_depth)

\* setModified(Code code, depth_t min_depth)
setModified(S, code, min_depth) ==
    IF rootDepth(S) < min_depth THEN S
    ELSE IF CodeDepth(code) < min_depth
    THEN setModifiedParents(S, CodeToDepth(code, min_depth - 1))
    ELSE LET S1 == IF CodeDepth(code) = 0
                   THEN LET nd == leafNodeAndDepth(S, code) IN
                        SetModifiedBit(S, nd[1], CodeIndex(code, nd[2]))
                   ELSE LET nd == innerNodeAndDepth(S, code) IN
                        setModifiedAt(S, nd[1], CodeIndex(code, nd[2]), nd[2], min_depth) IN
         setModifiedParents(S1, CodeToDepth(code, min_depth))

\* ------------------------------------------------------------------------
\* Root, clear, destruction
\* ------------------------------------------------------------------------
\* OctreeBase::initRoot
initRoot(n) == [n EXCEPT !.leaf = AllBits, !.modified = NoBits]

\* the payload part of derived().initRoot()
initRootData(n) == [n EXCEPT !.val = [j \in Indices |-> 0]]

\* clear that resets the root and leaves the children in place
clearRootOnly(S, prune_memory) == [S EXCEPT !.root_ = initRootData(initRoot(@))]

\* clear(leaf_size, depth_levels, prune) with the current size and levels
clear(S, prune_memory) ==
    LET S1 == deleteChildren(S, RootRef, AllBits \ S.root_.leaf, rootDepth(S),
                             prune_memory) IN
    IF S1.fault # "none" THEN S1
    ELSE [S1 EXCEPT !.root_ = initRootData(initRoot(@))]

\* ~OctreeBase()
destroy(S) == deleteChildren(S, RootRef, AllBits \ S.root_.leaf, rootDepth(S), TRUE)

\* ------------------------------------------------------------------------
\* State
\* ------------------------------------------------------------------------
VARIABLES
    root_,                  \* the root InnerNode
    blocks,                 \* memory: block address -> the eight nodes of the block
    owner,                  \* block address -> "sys" (not allocated), "tree", "pool"
    free_inner_blocks,      \* stack of free inner blocks, top first
    free_leaf_blocks,       \* stack of free leaf blocks, top first
    num_inner_nodes,
    num_inner_leaf_nodes,
    num_leaf_nodes,
    depth_levels,
    automatic_prune,
    ReuseNodes,             \* template parameter of the map
    fault,                  \* "none", or how the process died
    alive,                  \* FALSE once the destructor has run
    lastOp,                 \* the last call made and what held before it
    writer,                 \* the thread inside apply: where it stands
    propagator,             \* the thread inside propagateModified: its call stack
    overlap,                \* the map when the propagator started, the applies since
    calls,                  \* calls the two threads have made
    Lock,                   \* template parameter of the map: the lock mode
    locks,                  \* the test-and-set flags: 0, or the thread that set it
    racers                  \* the threads inside create...Children / deleteChildren

vars == <<root_, blocks, owner, free_inner_blocks, free_leaf_blocks, num_inner_nodes,
          num_inner_leaf_nodes, num_leaf_nodes, depth_levels, automatic_prune,
          ReuseNodes, fault, alive, lastOp, writer, propagator, overlap,
          calls, Lock, locks, racers>>

race == <<Lock, locks, racers>>

threads == <<writer, propagator, overlap, calls, race>>

\* the map as one record, as the operators above take it
Cur ==
    [root_ |-> root_, blocks |-> blocks, owner |-> owner,
     free_inner_blocks |-> free_inner_blocks, free_leaf_blocks |-> free_leaf_blocks,
     num_inner_nodes |-> num_inner_nodes, num_inner_leaf_nodes |-> num_inner_leaf_nodes,
     num_leaf_nodes |-> num_leaf_nodes, depth_levels |-> depth_levels,
     automatic_prune |-> automatic_prune, ReuseNodes |-> ReuseNodes, fault |-> fault]

Becomes(S) ==
    /\ root_' = S.root_
    /\ blocks' = S.blocks
    /\ owner' = S.owner
    /\ free_inner_blocks' = S.free_inner_blocks
    /\ free_leaf_blocks' = S.free_leaf_blocks
    /\ num_inner_nodes' = S.num_inner_nodes
    /\ num_inner_leaf_nodes' = S.num_inner_leaf_nodes
    /\ num_leaf_nodes' = S.num_leaf_nodes
    /\ depth_levels' = S.depth_levels
    /\ automatic_prune' = S.automatic_prune
    /\ ReuseNodes' = S.ReuseNodes
    /\ fault' = S.fault

\* ------------------------------------------------------------------------
\* The slots of the tree
\* ------------------------------------------------------------------------
RECURSIVE SlotsUnder(_, _, _)
\* the slots <<node, index, depth>> of a node at a depth and of what hangs
\* below its non-leaf slots
SlotsUnder(S, node, depth) ==
    {<<node, i, depth>> : i \in Indices}
    \cup (IF depth = 0 THEN {}
          ELSE UNION {SlotsUnder(S, ChildRef(S, node, i), depth - 1) :
                        i \in AllBits \ GetNode(S, node).leaf})

\* every slot of the tree: the root slot and its descendants
Slots(S) ==
    {<<RootRef, rootIndex, rootDepth(S)>>}
    \cup (IF rootIndex \in S.root_.leaf THEN {}
          ELSE SlotsUnder(S, ChildRef(S, RootRef, rootIndex), rootDepth(S) - 1))

IsLeafSlot(S, sl) == sl[3] = 0 \/ sl[2] \in GetNode(S, sl[1]).leaf
IsModifiedSlot(S, sl) == sl[2] \in GetNode(S, sl[1]).modified
ModifiedSlots(S) == {sl \in Slots(S) : IsModifiedSlot(S, sl)}

\* the slots on the path of a code, from the root slot to the addressed slot
RECURSIVE PathSlots(_, _, _, _)
PathSlots(S, node, depth, code) ==
    LET index == CodeIndex(code, depth) IN
    {<<node, index, depth>>}
    \cup (IF depth > CodeDepth(code) /\ ~IsLeafSlot(S, <<node, index, depth>>)
          THEN PathSlots(S, ChildRef(S, node, index), depth - 1, code)
          ELSE {})

\* the slots below a slot
SubtreeSlots(S, sl) ==
    IF IsLeafSlot(S, sl) THEN {}
    ELSE SlotsUnder(S, ChildRef(S, sl[1], sl[2]), sl[3] - 1)

\* ------------------------------------------------------------------------
\* Inputs
\* ------------------------------------------------------------------------
\* payloads written by apply
WriteValues == 1 .. MaxPayload

\* codes apply is called with: a depth-0 voxel, an inner node above it and a
\* depth-1 node on a second branch
ApplyCodes == {Code(0, 0), Code(0, 2), Code(80, 1)}

\* codes and min_depth arguments setModified is called with
SetModifiedCodes == {Code(0, 0), Code(80, 1), Code(0, InitDepthLevels - 1)}
SetModifiedDepths == {0, 1}

\* ------------------------------------------------------------------------
\* Initial state: a constructed map, root only
\* ------------------------------------------------------------------------
NoOp == [op |-> "init", code |-> 0, keep |-> FALSE, depth |-> 0, clean |-> TRUE]

IdleWriter == [pc |-> "idle", code |-> 0, v |-> 0, cur |-> RootRef, depth |-> 0]
IdlePropagator == [state |-> "idle", whole |-> TRUE, code |-> 0, stack |-> <<>>]
NoOverlap == [snap |-> <<>>, during |-> <<>>]

\* the threads that race in create...Children and deleteChildren, and the
\* nodes they work on: the root and the first node of a block
Threads == {1, 2}
RaceNodes == {RootRef} \cup {<<b, 0>> : b \in BlockIds}

\* every flag clear: children_locks_ (one per depth), the lock of each node,
\* free_inner_block_lock_ and free_leaf_block_lock_
Unlocked ==
    [children_locks_ |-> [d \in 0 .. maxDepthLevels - 1 |-> 0],
     node_lock |-> [r \in RaceNodes |-> 0],
     free_inner_block_lock_ |-> 0,
     free_leaf_block_lock_ |-> 0]

IdleRacer == [pc |-> "idle", fn |-> "none", node |-> RootRef, index |-> 0, depth |-> 0]

\* OctreeBase(leaf_node_size, levels, auto_prune)
InitMap(levels) ==
    /\ root_ = initRoot(DefaultNode)
    /\ blocks = [b \in BlockIds |-> DefaultBlock]
    /\ owner = [b \in BlockIds |-> "sys"]
    /\ free_inner_blocks = <<>>
    /\ free_leaf_blocks = <<>>
    /\ num_inner_nodes = 0
    /\ num_inner_leaf_nodes = 1
    /\ num_leaf_nodes = 0
    /\ depth_levels = levels
    /\ automatic_prune \in BOOLEAN
    /\ ReuseNodes \in BOOLEAN
    /\ fault = "none"
    /\ alive = TRUE
    /\ lastOp = NoOp
    /\ writer = IdleWriter
    /\ propagator = IdlePropagator
    /\ overlap = NoOverlap
    /\ calls = 0
    /\ Lock = "NONE"
    /\ locks = Unlocked
    /\ racers = [t \in Threads |-> IdleRacer]

Init == InitMap(InitDepthLevels)

Running == alive /\ fault = "none"

Clean(S) == ModifiedSlots(S) = {}

\* ------------------------------------------------------------------------
\* Actions: one per call
\* ------------------------------------------------------------------------
Apply(code, v) ==
    /\ Running
    /\ Becomes(apply(Cur, code, v, FALSE))
    /\ lastOp' = [op |-> "apply", code |-> code, keep |-> FALSE, depth |-> 0,
                  clean |-> Clean(Cur)]
    /\ UNCHANGED <<alive, threads>>

PropagateModified(keep_modified, max_depth) ==
    /\ Running
    /\ Becomes(propagateModified(Cur, keep_modified, max_depth))
    /\ lastOp' = [op |-> "propagateModified", code |-> 0, keep |-> keep_modified,
                  depth |-> max_depth, clean |-> TRUE]
    /\ UNCHANGED <<alive, threads>>

SetModified(code, min_depth) ==
    /\ Running
    /\ Becomes(setModified(Cur, code, min_depth))
    /\ lastOp' = [op |-> "setModified", code |-> code, keep |-> FALSE,
                  depth |-> min_depth, clean |-> TRUE]
    /\ UNCHANGED <<alive, threads>>

Clear(prune_memory) ==
    /\ Running
    /\ Becomes(clear(Cur, prune_memory))
    /\ lastOp' = [op |-> "clear", code |-> 0, keep |-> FALSE, depth |-> 0,
                  clean |-> TRUE]
    /\ UNCHANGED <<alive, threads>>

Destroy ==
    /\ Running
    /\ Becomes(destroy(Cur))
    /\ alive' = FALSE
    /\ UNCHANGED threads
    /\ lastOp' = [op |-> "destroy", code |-> 0, keep |-> FALSE, depth |-> 0,
                  clean |-> TRUE]

\* apply, propagation, clear and destruction
Next ==
    \/ \E code \in ApplyCodes, v \in WriteValues : Apply(code, v)
    \/ \E keep_modified \in BOOLEAN : PropagateModified(keep_modified, maxDepthLevels)
    \/ \E prune_memory \in BOOLEAN : Clear(prune_memory)
    \/ Destroy

Spec == Init /\ [][Next]_vars

\* apply, setModified and propagation
NextModified ==
    \/ \E code \in {Code(0, 0), Code(80, 1)}, v \in WriteValues : Apply(code, v)
    \/ \E code \in SetModifiedCodes, min_depth \in SetModifiedDepths :
          SetModified(code, min_depth)
    \/ PropagateModified(FALSE, maxDepthLevels)

SpecModified == Init /\ [][NextModified]_vars

\* the eight depth-0 children of one depth-1 slot
SiblingCodes == {Code(i, 0) : i \in Indices}

\* the payload the siblings are written with
PruneValues == {MaxPayload}

\* writes to the siblings, and propagation
NextPrune ==
    \/ \E code \in SiblingCodes, v \in PruneValues : Apply(code, v)
    \/ PropagateModified(FALSE, maxDepthLevels)

SpecPrune == InitMap(minDepthLevels) /\ [][NextPrune]_vars

\* ------------------------------------------------------------------------
\* Two threads on one map: a writer inside apply and a propagator inside
\* propagateModified.  A step is one statement group of the code; neither
\* propagateModified nor deleteChildren takes a lock in any lock mode.
\* ------------------------------------------------------------------------
\* depth_levels of the map the threads share
ConcDepthLevels == minDepthLevels

\* codes the writer applies: two voxels under two depth-1 slots, and the
\* first of these slots
ConcApplyCodes == {Code(0, 0), Code(8, 0), Code(0, 1)}

\* codes propagateModified(Code) is called with
ConcPropagateCodes == {Code(0, 1)}

\* a frame of the propagator's call stack: "top" is
\* propagateModified(InnerNode&, index, depth, ...), "recurs" is
\* propagateModifiedRecurs; mp is modified_parent, index the loop variable
Frame(fn, node, index, depth, pc) ==
    [fn |-> fn, node |-> node, index |-> index, depth |-> depth, mp |-> NoBits,
     pc |-> pc]

\* a reference into a block that was given back to the system
Dangling(S, r) == r[1] # 0 /\ S.owner[r[1]] = "sys"

WriterAt(pc) == Running /\ writer.pc = pc

WriterStep(S, w) ==
    /\ Becomes(S)
    /\ writer' = w
    /\ UNCHANGED <<alive, lastOp, propagator, overlap, calls, race>>

\* apply(code, f, f2, false) is entered
WBegin(code, v) ==
    /\ WriterAt("idle")
    /\ calls < MaxCalls
    /\ calls' = calls + 1
    /\ CodeDepth(code) <= rootDepth(Cur)
    /\ writer' = [pc |-> "descend", code |-> code, v |-> v, cur |-> RootRef,
                  depth |-> rootDepth(Cur)]
    /\ overlap' = IF propagator.state = "running"
                  THEN [overlap EXCEPT !.during = Append(@, <<code, v>>)]
                  ELSE NoOverlap
    /\ Becomes(Cur)
    /\ UNCHANGED <<alive, lastOp, propagator, race>>

\* while (min_depth != depth) { createInnerChildren(*cur, index, depth);
WDescend ==
    /\ WriterAt("descend")
    /\ Max(CodeDepth(writer.code), 1) # writer.depth
    /\ WriterStep(IF Dangling(Cur, writer.cur) THEN Fault(Cur, "use_after_free")
                  ELSE createInnerChildren(Cur, writer.cur,
                                           CodeIndex(writer.code, writer.depth),
                                           writer.depth),
                  [writer EXCEPT !.pc = "mark"])

\* cur->modified[index] = true; cur = &innerChild(*cur, index); --depth; }
WMark ==
    /\ WriterAt("mark")
    /\ LET index == CodeIndex(writer.code, writer.depth) IN
       IF Dangling(Cur, writer.cur)
       THEN WriterStep(Fault(Cur, "use_after_free"), writer)
       ELSE IF GetNode(Cur, writer.cur).children = nullptr
       THEN WriterStep(Fault(Cur, "null_deref"), writer)
       ELSE WriterStep(SetModifiedBit(Cur, writer.cur, index),
                       [writer EXCEPT !.pc = "descend",
                                      !.cur = ChildRef(Cur, writer.cur, index),
                                      !.depth = @ - 1])

\* the target is reached: createLeafChildren, f(*cur, index) or applyAllRecurs
WTarget ==
    /\ WriterAt("descend")
    /\ Max(CodeDepth(writer.code), 1) = writer.depth
    /\ LET index == CodeIndex(writer.code, writer.depth) IN
       IF Dangling(Cur, writer.cur)
       THEN WriterStep(Fault(Cur, "use_after_free"), writer)
       ELSE IF CodeDepth(writer.code) = 0
       THEN WriterStep(createLeafChildren(Cur, writer.cur, index),
                       [writer EXCEPT !.pc = "leafmark"])
       ELSE IF index \in GetNode(Cur, writer.cur).leaf
       THEN WriterStep(SetNode(Cur, writer.cur,
                               ApplyF(GetNode(Cur, writer.cur), index, writer.v)),
                       [writer EXCEPT !.pc = "finalmark"])
       ELSE WriterStep(applyAllRecurs(Cur, writer.cur, {index}, writer.depth, writer.v),
                       [writer EXCEPT !.pc = "finalmark"])

\* cur->modified[index] = true;   (the depth-0 branch)
WLeafMark ==
    /\ WriterAt("leafmark")
    /\ WriterStep(IF Dangling(Cur, writer.cur) THEN Fault(Cur, "use_after_free")
                  ELSE SetModifiedBit(Cur, writer.cur,
                                      CodeIndex(writer.code, writer.depth)),
                  [writer EXCEPT !.pc = "write"])

\* LeafNode& child = leafChild(*cur, index); f(child, child_index);
\* child.modified[child_index] = true; return
WWrite ==
    /\ WriterAt("write")
    /\ LET index == CodeIndex(writer.code, writer.depth)
           child == ChildRef(Cur, writer.cur, index)
           child_index == CodeIndex(writer.code, 0) IN
       IF Dangling(Cur, writer.cur)
       THEN WriterStep(Fault(Cur, "use_after_free"), writer)
       ELSE IF GetNode(Cur, writer.cur).children = nullptr
       THEN WriterStep(Fault(Cur, "null_deref"), writer)
       ELSE WriterStep(SetModifiedBit(
                           SetNode(Cur, child,
                                   ApplyF(GetNode(Cur, child), child_index, writer.v)),
                           child, child_index),
                       IdleWriter)

\* cur->modified[index] = true; return   (the inner branches)
WFinalMark ==
    /\ WriterAt("finalmark")
    /\ WriterStep(IF Dangling(Cur, writer.cur) THEN Fault(Cur, "use_after_free")
                  ELSE SetModifiedBit(Cur, writer.cur,
                                      CodeIndex(writer.code, writer.depth)),
                  IdleWriter)

\* the frame the propagator is in
PFrame == propagator.stack[Len(propagator.stack)]

PropagatorAt(fn, pc) ==
    /\ Running
    /\ propagator.state = "running"
    /\ PFrame.fn = fn
    /\ PFrame.pc = pc

\* the stack with its top frame replaced / returned from
SetTop(f) == [propagator.stack EXCEPT ![Len(propagator.stack)] = f]
Pop == SubSeq(propagator.stack, 1, Len(propagator.stack) - 1)

PropagatorStep(S, stack) ==
    /\ Becomes(S)
    /\ propagator' = [propagator EXCEPT !.stack = stack,
                                        !.state = IF stack = <<>> THEN "done"
                                                  ELSE "running"]
    /\ UNCHANGED <<alive, lastOp, writer, overlap, calls, race>>

\* what the propagator's entry records: the map as it stands when no apply
\* is under way
Snapshot == IF writer.pc = "idle" THEN <<Cur>> ELSE <<>>

\* propagateModified(false, maxDepthLevels()) is entered
PBeginAll ==
    /\ Running
    /\ propagator.state = "idle"
    /\ calls < MaxCalls
    /\ calls' = calls + 1
    /\ propagator' = [state |-> "running", whole |-> TRUE, code |-> 0,
                      stack |-> <<Frame("top", RootRef, rootIndex, rootDepth(Cur),
                                        "check")>>]
    /\ overlap' = [snap |-> Snapshot, during |-> <<>>]
    /\ Becomes(Cur)
    /\ UNCHANGED <<alive, lastOp, writer, race>>

\* propagateModified(code, false, maxDepthLevels()) is entered for an inner
\* code and finds the node at the depth of the code
PBeginCode(code) ==
    /\ Running
    /\ propagator.state = "idle"
    /\ calls < MaxCalls
    /\ calls' = calls + 1
    /\ CodeDepth(code) > 0
    /\ LET nd == innerNodeAndDepth(Cur, code) IN
       /\ CodeDepth(code) = nd[2]
       /\ propagator' = [state |-> "running", whole |-> FALSE, code |-> code,
                         stack |-> <<Frame("top", nd[1], CodeIndex(code, nd[2]), nd[2],
                                           "check")>>]
    /\ overlap' = [snap |-> Snapshot, during |-> <<>>]
    /\ Becomes(Cur)
    /\ UNCHANGED <<alive, lastOp, writer, race>>

\* if (!node.modified[index]) return; then the call into the children
PTopCheck ==
    /\ PropagatorAt("top", "check")
    /\ LET f == PFrame
           n == GetNode(Cur, f.node) IN
       IF f.index \notin n.modified THEN PropagatorStep(Cur, Pop)
       ELSE IF f.depth = 1
       THEN PropagatorStep(Cur, SetTop([f EXCEPT !.pc = "leafreset"]))
       ELSE IF n.children = nullptr
       THEN PropagatorStep(Fault(Cur, "null_deref"), propagator.stack)
       ELSE PropagatorStep(Cur,
                Append(SetTop([f EXCEPT !.pc = "update"]),
                       Frame("recurs", ChildRef(Cur, f.node, f.index), 0, f.depth - 1,
                             "snapshot")))

\* leafChild(node, index).modified.reset();
PTopLeafReset ==
    /\ PropagatorAt("top", "leafreset")
    /\ LET f == PFrame IN
       IF GetNode(Cur, f.node).children = nullptr
       THEN PropagatorStep(Fault(Cur, "null_deref"), propagator.stack)
       ELSE PropagatorStep(ResetModifiedOf(Cur, ChildRef(Cur, f.node, f.index)),
                           SetTop([f EXCEPT !.pc = "update"]))

\* IndexField const modified_parent = node.modified & ~node.leaf;
\* if (modified_parent.none()) { node.modified.reset(); return; }
PRecSnapshot ==
    /\ PropagatorAt("recurs", "snapshot")
    /\ LET f == PFrame
           n == GetNode(Cur, f.node)
           modified_parent == n.modified \ n.leaf IN
       IF modified_parent = {}
       THEN PropagatorStep(IF f.depth <= maxDepthLevels
                           THEN ResetModifiedOf(Cur, f.node) ELSE Cur, Pop)
       ELSE PropagatorStep(Cur, SetTop([f EXCEPT !.mp = modified_parent, !.index = 0,
                                                 !.pc = "children"]))

\* a loop that stays at its index
SameIndex(index) == index

\* ++index of the loop over modified_parent
NextIndex(index) == index + 1

\* one turn of the loop over modified_parent: reset the leaf child, or call
\* propagateModifiedRecurs on the inner child
PRecChild ==
    /\ PropagatorAt("recurs", "children")
    /\ LET f == PFrame
           todo == {i \in f.mp : i >= f.index} IN
       IF todo = {} THEN PropagatorStep(Cur, SetTop([f EXCEPT !.pc = "update"]))
       ELSE LET i == MinOf(todo)
                g == [f EXCEPT !.index = NextIndex(i)] IN
            IF GetNode(Cur, f.node).children = nullptr
            THEN PropagatorStep(Fault(Cur, "null_deref"), propagator.stack)
            ELSE IF f.depth = 1
            THEN PropagatorStep(ResetModifiedOf(Cur, ChildRef(Cur, f.node, i)), SetTop(g))
            ELSE PropagatorStep(Cur,
                     Append(SetTop(g),
                            Frame("recurs", ChildRef(Cur, f.node, i), 0, f.depth - 1,
                                  "snapshot")))

\* the indices a frame updates: its one index, or modified_parent
FrameIndices(f) == IF f.fn = "top" THEN {f.index} ELSE f.mp

\* updateNode(node, indices, depth) up to the last statement of the delete it
\* ends in: the payload loop, prune's isCollapsible, and deleteLeafChildren
\* up to "if (node.leaf.all())"
PUpdate ==
    /\ Running
    /\ propagator.state = "running"
    /\ PFrame.pc = "update"
    /\ LET f == PFrame
           S1 == updateNodeLoop(Cur, f.node, FrameIndices(f))
           collapsible == isCollapsible(S1, f.node, FrameIndices(f))
           S2 == deleteLeafChildrenMark(S1, f.node, collapsible) IN
       IF ~(f.depth <= maxDepthLevels) THEN PropagatorStep(Cur, Pop)
       ELSE IF f.depth # 1
       THEN PropagatorStep(updateNode(Cur, f.node, FrameIndices(f), f.depth),
                           SetTop([f EXCEPT !.pc = "reset"]))
       ELSE IF S1.fault # "none" THEN PropagatorStep(S1, propagator.stack)
       ELSE IF collapsible \ GetNode(S1, f.node).leaf # {}
               /\ GetNode(S2, f.node).leaf = AllBits
       THEN PropagatorStep(S2, SetTop([f EXCEPT !.pc = "deallocate"]))
       ELSE PropagatorStep(S2, SetTop([f EXCEPT !.pc = "reset"]))

\* deallocateLeafChildren(node, manual_pruning || automaticPruning());
PDeallocate ==
    /\ Running
    /\ propagator.state = "running"
    /\ PFrame.pc = "deallocate"
    /\ PropagatorStep(deallocateLeafChildren(Cur, PFrame.node, Cur.automatic_prune),
                      SetTop([PFrame EXCEPT !.pc = "reset"]))

\* node.modified[index] = false; return
PTopReset ==
    /\ PropagatorAt("top", "reset")
    /\ PropagatorStep(SetNode(Cur, PFrame.node,
                              [GetNode(Cur, PFrame.node)
                                  EXCEPT !.modified = @ \ {PFrame.index}]),
                      Pop)

\* node.modified.reset(); return
PRecReset ==
    /\ PropagatorAt("recurs", "reset")
    /\ PropagatorStep(ResetModifiedOf(Cur, PFrame.node), Pop)

\* the call has returned to its caller
PReturn ==
    /\ Running
    /\ propagator.state = "done"
    /\ propagator' = IdlePropagator
    /\ overlap' = NoOverlap
    /\ Becomes(Cur)
    /\ UNCHANGED <<alive, lastOp, writer, calls, race>>

NextConc ==
    \/ \E code \in ConcApplyCodes, v \in WriteValues : WBegin(code, v)
    \/ WDescend
    \/ WMark
    \/ WTarget
    \/ WLeafMark
    \/ WWrite
    \/ WFinalMark
    \/ PBeginAll
    \/ \E code \in ConcPropagateCodes : PBeginCode(code)
    \/ PTopCheck
    \/ PTopLeafReset
    \/ PRecSnapshot
    \/ PRecChild
    \/ PUpdate
    \/ PDeallocate
    \/ PTopReset
    \/ PRecReset
    \/ PReturn

SpecConc == InitMap(ConcDepthLevels) /\ [][NextConc]_vars

\* ------------------------------------------------------------------------
\* Properties
\* ------------------------------------------------------------------------
\* the inner nodes of the tree: the root and every node above depth 0 that
\* hangs below a non-leaf slot
InnerNodesOf(S) == {sl[1] : sl \in {x \in Slots(S) : x[3] >= 1}}

\* the slots that have children
ParentSlots(S) == {sl \in Slots(S) : ~IsLeafSlot(S, sl)}

\* the slot a code addresses, once the path to it exists
TargetSlot(S, code) ==
    CHOOSE sl \in PathSlots(S, RootRef, rootDepth(S), code) :
        \A other \in PathSlots(S, RootRef, rootDepth(S), code) : sl[3] <= other[3]

\* C1 as stated: for every inner node n and slot i, n.leaf[i] == 1 if and
\* only if the child block pointer is null.
C1_LeafIffNullPointer ==
    \A node \in InnerNodesOf(Cur) : \A i \in Indices :
        (i \in GetNode(Cur, node).leaf) <=> (GetNode(Cur, node).children = nullptr)

\* C1 amended: a slot with leaf[i] == 0 has a child block, owned by the
\* tree; the pointer serves the eight slots of the node, so a leaf slot may
\* sit next to an allocated block.
C1_NonLeafHasBlock ==
    \A node \in InnerNodesOf(Cur) : \A i \in Indices :
        (i \notin GetNode(Cur, node).leaf)
            => /\ GetNode(Cur, node).children # nullptr
               /\ owner[GetNode(Cur, node).children] = "tree"

\* a node with a child block, a split slot and a leaf slot, after propagation
C1_Witness ==
    /\ lastOp.op = "propagateModified"
    /\ \E node \in InnerNodesOf(Cur) :
          /\ GetNode(Cur, node).children # nullptr
          /\ GetNode(Cur, node).leaf # AllBits
          /\ GetNode(Cur, node).leaf # NoBits

\* C2: the modified bits are upward-closed: a slot below which some slot
\* is modified is itself modified.
C2_ModifiedUpwardClosed ==
    \A sl \in ParentSlots(Cur) :
        (GetNode(Cur, ChildRef(Cur, sl[1], sl[2])).modified # NoBits)
            => IsModifiedSlot(Cur, sl)

\* C3: after propagateModified(keep_modified = false) on the whole map has
\* returned no slot is modified and every slot with children carries the
\* aggregate of its children.
C3_PropagatedClean ==
    (lastOp.op = "propagateModified" /\ ~lastOp.keep /\ fault = "none")
        => /\ ModifiedSlots(Cur) = {}
           /\ \A sl \in ParentSlots(Cur) :
                 GetNode(Cur, sl[1]).val[sl[2]]
                     = Aggregate(GetNode(Cur, ChildRef(Cur, sl[1], sl[2])))

\* C4 as stated: after one apply on a map without modified bits the
\* modified slots are exactly the path from the root to the target.
C4_ExactlyPath ==
    (lastOp.op = "apply" /\ lastOp.clean /\ fault = "none")
        => ModifiedSlots(Cur) = PathSlots(Cur, RootRef, rootDepth(Cur), lastOp.code)

\* C4 amended: the modified slots are the path from the root to the target
\* and, when the target has children, every slot below the target.
C4_PathAndSubtree ==
    (lastOp.op = "apply" /\ lastOp.clean /\ fault = "none")
        => ModifiedSlots(Cur)
             = PathSlots(Cur, RootRef, rootDepth(Cur), lastOp.code)
               \cup SubtreeSlots(Cur, TargetSlot(Cur, lastOp.code))

\* an apply on a clean map whose target has children
C4_Witness ==
    /\ lastOp.op = "apply" /\ lastOp.clean /\ fault = "none"
    /\ SubtreeSlots(Cur, TargetSlot(Cur, lastOp.code)) # {}

\* the tree as its payloads, leaf bits and modified bits, from a node down
RECURSIVE TreeOf(_, _, _)
TreeOf(S, node, depth) ==
    LET n == GetNode(S, node) IN
    IF depth = 0 THEN [val |-> n.val, modified |-> n.modified]
    ELSE [val |-> n.val, leaf |-> n.leaf, modified |-> n.modified,
          kids |-> [i \in AllBits \ n.leaf |->
                       TreeOf(S, ChildRef(S, node, i), depth - 1)]]

\* how a run ended: the fault, or the tree it left
Outcome(S) ==
    IF S.fault # "none" THEN [fault |-> S.fault, tree |-> <<>>]
    ELSE [fault |-> "none", tree |-> <<TreeOf(S, RootRef, rootDepth(S))>>]

\* the applies ops[i..j], one after the other
RECURSIVE ApplySeq(_, _, _, _)
ApplySeq(S, ops, i, j) ==
    IF i > j THEN S
    ELSE ApplySeq(apply(S, ops[i][1], ops[i][2], FALSE), ops, i + 1, j)

\* the sequential order that puts the propagation after the first j applies
SerialRun(S, code, ops, j) ==
    ApplySeq(propagateModifiedCode(ApplySeq(S, ops, 1, j), code, FALSE, maxDepthLevels),
             ops, j + 1, Len(ops))

\* two codes whose subtrees share no slot
CodesDisjoint(a, b) ==
    LET d == Max(CodeDepth(a), CodeDepth(b)) IN CodeToDepth(a, d) # CodeToDepth(b, d)

\* a propagation of one subtree that started on a quiescent map and ran
\* beside applies on disjoint subtrees only
DisjointOverlap ==
    /\ propagator.state # "idle"
    /\ ~propagator.whole
    /\ overlap.snap # <<>>
    /\ \A k \in 1 .. Len(overlap.during) :
          CodesDisjoint(overlap.during[k][1], propagator.code)

\* the payload of a slot with children is the aggregate of its children
Propagated(S, sl) ==
    GetNode(S, sl[1]).val[sl[2]] = Aggregate(GetNode(S, ChildRef(S, sl[1], sl[2])))

\* C5: when every apply that was started has completed, a slot whose
\* modified bit is 0 has no write pending at or below it: the slot and every
\* slot below it that has children carry the aggregate of their children.
C5_UnmodifiedMeansPropagated ==
    (writer.pc = "idle" /\ fault = "none")
        => \A sl \in ParentSlots(Cur) :
              ~IsModifiedSlot(Cur, sl)
                  => \A p \in ({sl} \cup SubtreeSlots(Cur, sl)) \cap ParentSlots(Cur) :
                        Propagated(Cur, p)

\* C6: a propagation of one subtree beside applies on disjoint subtrees ends
\* as some sequential order of the propagation and those applies ends.
C6_Serialisable ==
    (DisjointOverlap
       /\ (fault # "none" \/ (propagator.state = "done" /\ writer.pc = "idle")))
        => \E j \in 0 .. Len(overlap.during) :
              Outcome(Cur)
                = Outcome(SerialRun(overlap.snap[1], propagator.code, overlap.during, j))

\* the depth-1 slot above the siblings, once the tree is split down to it
SiblingParents(S) ==
    {sl \in PathSlots(S, RootRef, rootDepth(S), Code(0, 0)) : sl[3] = 1}

\* the eight children of a slot carry one payload v, and a write is pending
Homogeneous(S, sl, v) ==
    /\ ~IsLeafSlot(S, sl)
    /\ LET child == GetNode(S, ChildRef(S, sl[1], sl[2])) IN
       /\ \A j \in Indices : child.val[j] = v
       /\ child.modified # NoBits

\* a propagateModified(false) step that starts with the children of slot sl
\* carrying v
PruneStep(sl, v) ==
    /\ Homogeneous(Cur, sl, v)
    /\ lastOp'.op = "propagateModified"
    /\ fault' = "none"

\* after the step the counter of leaf nodes is 0 and the slot is a leaf
\* carrying v
Collapsed(sl, v) ==
    /\ num_leaf_nodes' = 0
    /\ sl[2] \in GetNode(Cur, sl[1])'.leaf
    /\ GetNode(Cur, sl[1])'.val[sl[2]] = v

C7_ReleasedExactlyOnce ==
    (~alive) => /\ \A b \in BlockIds : owner[b] # "tree"
                /\ fault # "double_free"

\* C8: once the map is destroyed the free pools hold no block.
C8_PoolsDrained ==
    (~alive) => /\ free_inner_blocks = <<>>
                /\ free_leaf_blocks = <<>>

\* C9: after clear the three node counters add up to 1.
C9_ClearedCountsRoot ==
    (lastOp.op = "clear" /\ fault = "none")
        => num_leaf_nodes + num_inner_nodes + num_inner_leaf_nodes = 1

\* a clear of a map that had been split: its blocks are still allocated
C9_Witness ==
    /\ lastOp.op = "clear" /\ fault = "none"
    /\ \E b \in BlockIds : owner[b] # "sys"

\* ------------------------------------------------------------------------
\* Calls with their results: apply with propagation
\* ------------------------------------------------------------------------
\* apply(code, f, f2, true)
ApplyPropagate(code, v) ==
    /\ Running
    /\ Becomes(apply(Cur, code, v, TRUE))
    /\ lastOp' = [op |-> "applyPropagate", code |-> code, keep |-> FALSE, depth |-> 0,
                  clean |-> Clean(Cur)]
    /\ UNCHANGED <<alive, threads>>

\* codes the lookups are called with: the codes written and a voxel on a
\* branch of its own
LookupCodes == ApplyCodes \cup {Code(64, 0)}

\* leafNodeAndDepth(code); the map is left as it is
LeafNodeAndDepth(code) ==
    /\ Running
    /\ CodeDepth(code) <= rootDepth(Cur)
    /\ lastOp' = [op |-> "leafNodeAndDepth", code |-> code, keep |-> FALSE,
                  depth |-> 0, clean |-> TRUE,
                  result |-> leafNodeAndDepth(Cur, code)]
    /\ UNCHANGED <<root_, blocks, owner, free_inner_blocks, free_leaf_blocks,
                   num_inner_nodes, num_inner_leaf_nodes, num_leaf_nodes,
                   depth_levels, automatic_prune, ReuseNodes, fault, alive, threads>>

\* innerNodeAndDepth(code), as isLeaf(code) calls it for an inner code
InnerNodeAndDepth(code) ==
    /\ Running
    /\ CodeDepth(code) <= rootDepth(Cur)
    /\ CodeDepth(code) > 0
    /\ lastOp' = [op |-> "innerNodeAndDepth", code |-> code, keep |-> FALSE,
                  depth |-> 0, clean |-> TRUE,
                  result |-> innerNodeAndDepth(Cur, code)]
    /\ UNCHANGED <<root_, blocks, owner, free_inner_blocks, free_leaf_blocks,
                   num_inner_nodes, num_inner_leaf_nodes, num_leaf_nodes,
                   depth_levels, automatic_prune, ReuseNodes, fault, alive, threads>>

\* a code one level above the root
OutOfDepthCodes == {Code(0, InitDepthLevels)}

\* apply(code, f, f2, false) with the Node it returns
ApplyReturning(code, v) ==
    /\ Running
    /\ Becomes(apply(Cur, code, v, FALSE))
    /\ lastOp' = [op |-> "applyReturning", code |-> code, keep |-> FALSE, depth |-> 0,
                  clean |-> Clean(Cur), result |-> applyReturn(Cur, code)]
    /\ UNCHANGED <<alive, threads>>

\* propagateModified(false) during which the aggregation hook throws at a
\* slot with children; the caller catches the exception
PropagateThrowing(sl) ==
    /\ Running
    /\ LET Sx == propagateModified(Cur @@ [throw_at |-> <<sl[1], sl[2]>>], FALSE,
                                   maxDepthLevels) IN
       /\ Sx.fault = "hook_throw"
       /\ Becomes([Sx EXCEPT !.fault = "none"])
    /\ lastOp' = [op |-> "propagateThrew", code |-> 0, keep |-> FALSE,
                  depth |-> maxDepthLevels, clean |-> TRUE, at |-> sl,
                  before |-> GetNode(Cur, sl[1]).val[sl[2]]]
    /\ UNCHANGED <<alive, threads>>

\* the number of blocks the system can still give out when apply is entered
AllocBudgets == 0 .. 2

\* the blocks the tree owns
TreeBlocks(S) == {b \in BlockIds : S.owner[b] = "tree"}

\* the payload in force for a code: that of the deepest slot on its path
ValueAt(S, code) ==
    LET sl == TargetSlot(S, code) IN GetNode(S, sl[1]).val[sl[2]]

\* apply(code, f, f2, false) during which operator new throws
\* std::bad_alloc; the caller catches the exception
ApplyBadAlloc(code, v, budget) ==
    LET Thrown(Sx) ==
            /\ Sx.fault = "bad_alloc"
            /\ Becomes([Sx EXCEPT !.fault = "none"])
            /\ lastOp' = [op |-> "applyBadAlloc", code |-> code, keep |-> FALSE,
                          depth |-> 0, clean |-> Clean(Cur), v |-> v,
                          before |-> ValueAt(Cur, code),
                          created |-> TreeBlocks(Sx) \ TreeBlocks(Cur)] IN
    /\ Running
    /\ Thrown(apply(Cur @@ [alloc_budget |-> budget], code, v, FALSE))
    /\ UNCHANGED <<alive, threads>>

\* the codes the payload is observed at: one at every depth, and a voxel and
\* an inner code off the path of the others
ObservedCodes ==
    {Code(0, d) : d \in 0 .. InitDepthLevels - 1} \cup {Code(64, 0), Code(80, 1), Code(8, 1)}

Observed(S) == [c \in ObservedCodes |-> ValueAt(S, c)]

\* apply(code, f_noop, f_noop, true)
ApplyNoop(code) ==
    /\ Running
    /\ Becomes(apply(Cur, code, f_noop, TRUE))
    /\ lastOp' = [op |-> "applyNoop", code |-> code, keep |-> FALSE, depth |-> 0,
                  clean |-> Clean(Cur), before |-> Observed(Cur),
                  alone |-> Observed(propagateModified(Cur, FALSE, maxDepthLevels)),
                  created |-> TreeBlocks(apply(Cur, code, f_noop, FALSE)) \ TreeBlocks(Cur)]
    /\ UNCHANGED <<alive, threads>>

NextNoop ==
    \/ \E code \in ApplyCodes, v \in WriteValues : Apply(code, v)
    \/ \E code \in ApplyCodes \cup {Code(8, 1)} : ApplyNoop(code)

SpecNoop == Init /\ [][NextNoop]_vars

NextCalls ==
    \/ \E code \in ApplyCodes \cup OutOfDepthCodes, v \in WriteValues :
            ApplyReturning(code, v)
    \/ \E code \in ApplyCodes, v \in WriteValues : ApplyPropagate(code, v)
    \/ \E prune_memory \in BOOLEAN : Clear(prune_memory)

SpecCalls == Init /\ [][NextCalls]_vars

\* apply and the two lookups
NextLookup ==
    \/ \E code \in ApplyCodes, v \in WriteValues : Apply(code, v)
    \/ \E code \in LookupCodes : LeafNodeAndDepth(code)
    \/ \E code \in LookupCodes : InnerNodeAndDepth(code)

SpecLookup == Init /\ [][NextLookup]_vars

\* the non-leaf slots at a depth
ParentSlotsAt(S, d) == {sl \in ParentSlots(S) : sl[3] = d}

\* one spine: at every depth from rootDepth to 1 exactly one slot is split,
\* the one on the path of the code, and the only leaf block is the one the
\* spine ends in
Spine(S, code) ==
    /\ S.fault = "none"
    /\ \A d \in 1 .. rootDepth(S) : Cardinality(ParentSlotsAt(S, d)) = 1
    /\ ParentSlots(S) \subseteq PathSlots(S, RootRef, rootDepth(S), code)
    /\ S.num_leaf_nodes = 8
    /\ S.num_inner_nodes = rootDepth(S)

OnOwnPath(S, code, nd) ==
    LET sl == <<nd[1], CodeIndex(code, nd[2]), nd[2]>> IN
    /\ sl \in PathSlots(S, RootRef, rootDepth(S), code)
    /\ (nd[2] = CodeDepth(code) \/ IsLeafSlot(S, sl))

\* C12: a lookup of a code with depth <= rootDepth follows code.index(d) at
\* every depth d and stops where d == code.depth() or the slot is a leaf: the
\* slot it returns is the addressed node or its enclosing ancestor on the
\* path of the code.
C12_LookupOnOwnPath ==
    (lastOp.op \in {"leafNodeAndDepth", "innerNodeAndDepth"})
        => OnOwnPath(Cur, lastOp.code, lastOp.result)

\* the part of C12 leafNodeAndDepth keeps
C12_LeafLookupOnOwnPath ==
    (lastOp.op = "leafNodeAndDepth") => OnOwnPath(Cur, lastOp.code, lastOp.result)

NextThrow ==
    \/ \E code \in ConcApplyCodes, v \in WriteValues : Apply(code, v)
    \/ PropagateModified(FALSE, maxDepthLevels)
    \/ \E sl \in ParentSlots(Cur) : PropagateThrowing(sl)

SpecThrow == InitMap(minDepthLevels) /\ [][NextThrow]_vars

\* the state a throwing hook leaves at slot sl: the slots below are
\* propagated and clean, the payload of sl is what it was, and sl and the
\* slots above it are still modified
LeftForRetry(S, sl, before) ==
    /\ ~IsLeafSlot(S, sl)
    /\ \A d \in SubtreeSlots(S, sl) :
          /\ ~IsModifiedSlot(S, d)
          /\ ~IsLeafSlot(S, d) => Propagated(S, d)
    /\ GetNode(S, sl[1]).val[sl[2]] = before
    /\ IsModifiedSlot(S, sl)
    /\ \A p \in ParentSlots(S) : sl \in SubtreeSlots(S, p) => IsModifiedSlot(S, p)

\* no slot is modified and every slot with children carries their aggregate
PropagatedClean(S) ==
    /\ S.fault = "none"
    /\ ModifiedSlots(S) = {}
    /\ \A sl \in ParentSlots(S) : Propagated(S, sl)

\* C14: when the aggregation hook throws during propagateModified, the
\* slots below the slot it was called for are fully propagated, the payload
\* of that slot is not updated and its modified bit (and that of every slot
\* above) is still set; a propagateModified(false) called next completes the
\* propagation.
C14_ThrowLeavesRetryable ==
    [][/\ (lastOp'.op = "propagateThrew")
              => LeftForRetry(Cur, lastOp.at, lastOp.before)'
       /\ (lastOp.op = "propagateThrew" /\ lastOp'.op = "propagateModified"
              /\ ~lastOp'.keep)
              => PropagatedClean(Cur)']_vars

C14_Witness ==
    /\ lastOp.op = "propagateThrew"
    /\ lastOp.at[3] < rootDepth(Cur)
    /\ LeftForRetry(Cur, lastOp.at, lastOp.before)
    /\ ~Propagated(Cur, lastOp.at)

NextAlloc ==
    \/ \E code \in ApplyCodes, v \in WriteValues : Apply(code, v)
    \/ \E code \in ApplyCodes, v \in WriteValues, budget \in AllocBudgets :
            ApplyBadAlloc(code, v, budget)

SpecAlloc == Init /\ [][NextAlloc]_vars

\* every slot with children has a child block, owned by the tree
ValidChildren(S) ==
    \A node \in InnerNodesOf(S) :
        GetNode(S, node).leaf # AllBits
            => /\ GetNode(S, node).children # nullptr
               /\ S.owner[GetNode(S, node).children] = "tree"

\* C15: when the allocation of a block fails during the descent of apply,
\* the blocks the descent created before are children of slots on the path
\* of the code, every slot with children has its block, and f is not applied:
\* the payload in force for the code and the payload of every slot the tree
\* had are what they were.
C15_AllocFailureKeepsSpine ==
    [][(lastOp'.op = "applyBadAlloc")
         => /\ ValidChildren(Cur)'
            /\ \A b \in lastOp'.created :
                  \E sl \in PathSlots(Cur, RootRef, rootDepth(Cur), lastOp.code)' :
                      /\ ~IsLeafSlot(Cur, sl)'
                      /\ GetNode(Cur, sl[1])'.children = b
            /\ ValueAt(Cur, lastOp.code)' = lastOp'.before
            /\ \A sl \in Slots(Cur) :
                  GetNode(Cur, sl[1])'.val[sl[2]] = GetNode(Cur, sl[1]).val[sl[2]]]_vars

C15_Witness ==
    /\ lastOp.op = "applyBadAlloc"
    /\ Cardinality(lastOp.created) >= 2
    /\ ValidChildren(Cur)
    /\ ValueAt(Cur, lastOp.code) = lastOp.before
    /\ lastOp.before # lastOp.v

\* ------------------------------------------------------------------------
\* Sibling, child and parent with their argument tests
\* ------------------------------------------------------------------------
\* rootCode()
rootCode(S) == Code(rootIndex * Pow2(3 * rootDepth(S)), rootDepth(S))

\* isRoot(code)
isRoot(S, code) == rootCode(S) = code

\* isLeaf(node) of the node operator()(code) gives
isLeafNode(S, code) ==
    LET nd == leafNodeAndDepth(S, code) IN
    \/ CodeDepth(code) = 0
    \/ CodeIndex(code, nd[2]) \in GetNode(S, nd[1]).leaf

\* isParent(node)
isParent(S, code) == ~isLeafNode(S, code)

\* siblingChecked(node, sibling_index): the first test reads !isRoot(node)
siblingChecked(S, code, sibling_index) ==
    IF ~isRoot(S, code) THEN [kind |-> "out_of_range", what |-> "Node has no siblings"]
    ELSE IF 7 < sibling_index
         THEN [kind |-> "out_of_range", what |-> "sibling_index out of range"]
         ELSE [kind |-> "node", code |-> CodeSibling(code, sibling_index)]

\* childChecked(node, child_index)
childChecked(S, code, child_index) ==
    IF ~isParent(S, code) THEN [kind |-> "out_of_range", what |-> "Node has no children"]
    ELSE IF 7 < child_index
         THEN [kind |-> "out_of_range", what |-> "child_index out of range"]
         ELSE [kind |-> "node", code |-> CodeChild(code, child_index)]

\* the codes, indices and depths the calls are made with
ArgCodes == {Code(0, 0), Code(0, 1), Code(80, 1), Code(0, 2), Code(0, InitDepthLevels - 1)}
ArgIndices == {0, 3, 7, 8, 9}
ArgDepths == 0 .. InitDepthLevels - 1

\* a call that leaves the map as it is and hands its result to the caller
Called(op, code, arg, result) ==
    /\ Running
    /\ lastOp' = [op |-> op, code |-> code, keep |-> FALSE, depth |-> 0,
                  clean |-> TRUE, arg |-> arg, result |-> result]
    /\ UNCHANGED <<root_, blocks, owner, free_inner_blocks, free_leaf_blocks,
                   num_inner_nodes, num_inner_leaf_nodes, num_leaf_nodes,
                   depth_levels, automatic_prune, ReuseNodes, fault, alive, threads>>

SiblingChecked(code, index) ==
    Called("siblingChecked", code, index, siblingChecked(Cur, code, index))

ChildChecked(code, index) ==
    Called("childChecked", code, index, childChecked(Cur, code, index))

CodeChildCall(code, index) ==
    Called("Code::child", code, index, [kind |-> "code", code |-> CodeChild(code, index)])

CodeSiblingCall(code, index) ==
    Called("Code::sibling", code, index, [kind |-> "code", code |-> CodeSibling(code, index)])

CodeParentCall(code, parent_depth) ==
    \E result \in CodeParent(code, parent_depth) :
        Called("Code::parent", code, parent_depth, result)

NextArgs ==
    \/ \E code \in ApplyCodes, v \in WriteValues : Apply(code, v)
    \/ \E code \in ArgCodes, index \in ArgIndices : SiblingChecked(code, index)
    \/ \E code \in ArgCodes, index \in ArgIndices : ChildChecked(code, index)
    \/ \E code \in ArgCodes, index \in ArgIndices : CodeChildCall(code, index)
    \/ \E code \in ArgCodes, index \in ArgIndices : CodeSiblingCall(code, index)
    \/ \E code \in ArgCodes, parent_depth \in ArgDepths : CodeParentCall(code, parent_depth)

SpecArgs == Init /\ [][NextArgs]_vars

\* the last call was given an argument the interface rules out
BadArgument ==
    \/ /\ lastOp.op \in {"siblingChecked", "childChecked", "Code::child", "Code::sibling"}
       /\ lastOp.arg > 7
    \/ /\ lastOp.op = "Code::parent"
       /\ lastOp.arg < CodeDepth(lastOp.code)

\* C16: a sibling or child operation given an index above 7, and a parent
\* operation given a parent_depth below the depth of the code, hand an
\* error to the caller and return no node and no code.
C16_BadArgumentReported ==
    BadArgument => lastOp.result.kind = "out_of_range"

\* the part of C16 that siblingChecked and childChecked meet: an index
\* above 7 is answered with std::out_of_range
C16_CheckedReported ==
    (lastOp.op \in {"siblingChecked", "childChecked"} /\ lastOp.arg > 7)
        => lastOp.result.kind = "out_of_range"

\* ------------------------------------------------------------------------
\* Conversions between coordinates, keys and codes.  A coordinate is counted
\* in halves of the leaf node size, so that size(0) is 2; a Point is a
\* triple of coordinates; a Key is <<x, y, z, depth>>
\* ------------------------------------------------------------------------
nullopt == "nullopt"
Some(v) == <<"some", v>>

\* size(depth): node_size_[depth] = ldexp(leaf_node_size, depth)
size(S, depth) == 2 * Pow2(depth)

\* max_value_ = 2^(depth_levels - 2)
max_value(S) == Pow2(S.depth_levels - 2)

\* isWithin with the size of the root in place of that of its children
isWithinRoot(S, coord) ==
    LET max == size(S, rootDepth(S))
        min == -max IN
    \A i \in 1 .. 3 : min <= coord[i] /\ max >= coord[i]

\* isWithin(x, y, z)
isWithin(S, coord) ==
    LET max == size(S, rootDepth(S) - 1)
        min == -max IN
    \A i \in 1 .. 3 : min <= coord[i] /\ max >= coord[i]

\* toKey(coord, depth) of one coordinate: node_size_factor_[0] * coord is
\* the coordinate in leaf node sizes.  A value of the unsigned key_t is
\* written as the integer nearest zero that is congruent to it modulo 2^32
\* (a negative n stands for 2^32 + n), which the sum and the two shifts keep
toKey1(S, coord, depth) ==
    LET val == coord \div 2 IN
    ((val + max_value(S)) \div Pow2(depth)) * Pow2(depth)

\* Key(x, y, z, depth): each component is kept with its lowest depth bits
\* zero
Key(x, y, z, depth) ==
    <<(x \div Pow2(depth)) * Pow2(depth), (y \div Pow2(depth)) * Pow2(depth),
      (z \div Pow2(depth)) * Pow2(depth), depth>>

\* toKey(Point, depth)
toKey(S, coord, depth) ==
    Key(toKey1(S, coord[1], depth), toKey1(S, coord[2], depth),
        toKey1(S, coord[3], depth), depth)

\* toKeyChecked(Point, depth)
toKeyChecked(S, coord, depth) ==
    IF rootDepth(S) >= depth /\ isWithin(S, coord)
    THEN Some(toKey(S, coord, depth)) ELSE nullopt

RECURSIVE splitBy3(_)
\* splitBy3(a): bit i of a moves to bit 3i
splitBy3(a) ==
    IF a % Pow2(21) = 0 THEN 0 ELSE (a % 2) + 8 * splitBy3((a % Pow2(21)) \div 2)

RECURSIVE get3Bits(_)
\* get3Bits(code): bit 3i of code moves to bit i
get3Bits(code) ==
    IF code = 0 THEN 0 ELSE (code % 2) + 2 * get3Bits(code \div 8)

\* Code::toCode(key)
KeyToCode(key) ==
    splitBy3(key[1]) + 2 * splitBy3(key[2]) + 4 * splitBy3(key[3])

\* Code(Key)
CodeOfKey(key) == KeyToCode(key) * 32 + key[4]

\* Code::operator Key with toKey(index) reading code_ >> index
KeyOfCodeNoDepthBits(c) ==
    Key(get3Bits(c), get3Bits(c \div 2), get3Bits(c \div 4), CodeDepth(c))

\* Code::operator Key
KeyOfCode(c) ==
    Key(get3Bits(c \div Pow2(5)), get3Bits(c \div Pow2(6)), get3Bits(c \div Pow2(7)),
        CodeDepth(c))

\* toCode(Point, depth)
toCode(S, coord, depth) == CodeOfKey(toKey(S, coord, depth))

\* toCodeChecked(Point, depth)
toCodeChecked(S, coord, depth) ==
    LET key == toKeyChecked(S, coord, depth) IN
    IF key # nullopt THEN Some(CodeOfKey(key[2])) ELSE nullopt

\* toCoord(key, depth) of one component, for a key below 2^31
toCoord1(S, key, depth) ==
    IF rootDepth(S) = depth THEN 0
    ELSE (2 * ((key - max_value(S)) \div Pow2(depth)) + 1) * (size(S, depth) \div 2)

\* toCoord(Key)
toCoord(S, key) ==
    <<toCoord1(S, key[1], key[4]), toCoord1(S, key[2], key[4]),
      toCoord1(S, key[3], key[4])>>

\* toCoordChecked(Key)
toCoordChecked(S, key) ==
    IF rootDepth(S) >= key[4] THEN Some(toCoord(S, key)) ELSE nullopt

\* the coordinates, depths and keys the conversions are called with: the
\* bound of the map, one step inside and one step outside it
CoordBound == Pow2(InitDepthLevels - 1)
ConvCoords == {-CoordBound - 1, -CoordBound, -3, CoordBound, CoordBound + 1}
ConvPoints == ConvCoords \X ConvCoords \X {0, CoordBound + 1}
ConvDepths == {0, 1, InitDepthLevels - 1, InitDepthLevels}
ConvKeys == {<<x, y, 0, d>> : x \in {0, 8, 15}, y \in {0, 8}, d \in ConvDepths}

ToKeyChecked(coord, depth) ==
    Called("toKeyChecked", 0, <<coord, depth>>, toKeyChecked(Cur, coord, depth))

ToCodeChecked(coord, depth) ==
    Called("toCodeChecked", 0, <<coord, depth>>, toCodeChecked(Cur, coord, depth))

ToCoordChecked(key) ==
    Called("toCoordChecked", 0, key, toCoordChecked(Cur, key))

NextConv ==
    \/ \E coord \in ConvPoints, depth \in ConvDepths : ToKeyChecked(coord, depth)
    \/ \E coord \in ConvPoints, depth \in ConvDepths : ToCodeChecked(coord, depth)
    \/ \E key \in ConvKeys : ToCoordChecked(key)

\* one map; the conversions read its depth_levels only
InitConv == Init /\ ~automatic_prune /\ ~ReuseNodes

SpecConv == InitConv /\ [][NextConv]_vars

\* a coordinate of the point lies beyond half the size of the root
OutsideBounds(S, coord) ==
    \E i \in 1 .. 3 :
        \/ coord[i] > size(S, rootDepth(S)) \div 2
        \/ -coord[i] > size(S, rootDepth(S)) \div 2

setNodeSizeAndDepthLevelsBelowMax(S, levels) ==
    IF minDepthLevels > levels \/ maxDepthLevels <= levels
    THEN Fault(S, "invalid_argument")
    ELSE [S EXCEPT !.depth_levels = levels]

\* setNodeSizeAndDepthLevels(leaf_node_size, depth_levels)
setNodeSizeAndDepthLevels(S, levels) ==
    IF minDepthLevels > levels \/ maxDepthLevels < levels
    THEN Fault(S, "invalid_argument")
    ELSE [S EXCEPT !.depth_levels = levels]

\* the members as their initialisers leave them, before the body of the
\* constructor runs
Members(S, auto_prune) ==
    [S EXCEPT !.root_ = initRoot(DefaultNode), !.free_inner_blocks = <<>>,
              !.free_leaf_blocks = <<>>, !.num_inner_nodes = 0,
              !.num_inner_leaf_nodes = 1, !.num_leaf_nodes = 0,
              !.depth_levels = 0, !.automatic_prune = auto_prune, !.fault = "none"]

\* no map: the state before a constructor is called
InitNone ==
    /\ root_ = initRoot(DefaultNode)
    /\ blocks = [b \in BlockIds |-> DefaultBlock]
    /\ owner = [b \in BlockIds |-> "sys"]
    /\ free_inner_blocks = <<>>
    /\ free_leaf_blocks = <<>>
    /\ num_inner_nodes = 0
    /\ num_inner_leaf_nodes = 1
    /\ num_leaf_nodes = 0
    /\ depth_levels = 0
    /\ automatic_prune = FALSE
    /\ ReuseNodes \in BOOLEAN
    /\ fault = "none"
    /\ alive = FALSE
    /\ lastOp = NoOp
    /\ writer = IdleWriter
    /\ propagator = IdlePropagator
    /\ overlap = NoOverlap
    /\ calls = 0
    /\ Lock = "NONE"
    /\ locks = Unlocked
    /\ racers = [t \in Threads |-> IdleRacer]

\* the depth_levels a constructor is called with
CtorLevels == 0 .. maxDepthLevels + 3

\* OctreeBase(leaf_node_size, depth_levels, auto_prune): an exception of
\* setNodeSizeAndDepthLevels leaves no object
Construct(levels, auto_prune) ==
    LET Built(Sx) ==
            IF Sx.fault = "invalid_argument"
            THEN /\ UNCHANGED <<root_, blocks, owner, free_inner_blocks,
                                free_leaf_blocks, num_inner_nodes, num_inner_leaf_nodes,
                                num_leaf_nodes, depth_levels, automatic_prune,
                                ReuseNodes, fault, alive>>
                 /\ lastOp' = [op |-> "OctreeBase", code |-> 0, keep |-> FALSE,
                               depth |-> levels, clean |-> TRUE,
                               result |-> "invalid_argument"]
            ELSE /\ Becomes(Sx)
                 /\ alive' = TRUE
                 /\ lastOp' = [op |-> "OctreeBase", code |-> 0, keep |-> FALSE,
                               depth |-> levels, clean |-> TRUE,
                               result |-> "constructed"] IN
    /\ ~alive
    /\ Built(setNodeSizeAndDepthLevels(Members(Cur, auto_prune), levels))
    /\ UNCHANGED threads

NextCtor ==
    \/ \E levels \in CtorLevels, auto_prune \in BOOLEAN : Construct(levels, auto_prune)
    \/ \E prune_memory \in BOOLEAN : Clear(prune_memory)
    \/ Destroy

SpecCtor == InitNone /\ [][NextCtor]_vars

\* C18: a constructor called with depth_levels outside [3, 22] fails with
\* the error for an invalid depth and leaves no map; called with any
\* depth_levels in [3, 22] it gives a map of that many levels.
C18_DepthLevelsChecked ==
    lastOp.op = "OctreeBase" =>
        IF lastOp.depth < 3 \/ lastOp.depth > 22
        THEN lastOp.result = "invalid_argument" /\ ~alive
        ELSE /\ lastOp.result = "constructed"
             /\ alive
             /\ fault = "none"
             /\ depth_levels = lastOp.depth
             /\ rootDepth(Cur) = lastOp.depth - 1

C18_Witness ==
    /\ lastOp.op = "OctreeBase"
    /\ lastOp.depth = 22
    /\ lastOp.result = "constructed"
    /\ alive

\* ------------------------------------------------------------------------
\* Codes and keys
\* ------------------------------------------------------------------------
\* the Morton codes and depths codes are made of
MortonCodes == (0 .. 15) \cup {64, 73, 511, Pow2(24) + Pow2(13) + 7, Pow2(25) - 1}
CodeDepths == 0 .. 2

\* codes as Code(code, depth) makes them, and values of code_ whose bits
\* below the depth are not zero
MadeCodes == {Code(m, d) : m \in MortonCodes, d \in CodeDepths}
RawCodes == {32 * 1 + 1, 32 * 9 + 1, 32 * 64 + 3}

\* the bits of a code below its depth are zero
WellDefined(c) == c = Code(CodeCode(c), CodeDepth(c))

\* Code(static_cast<Key>(c))
RoundTrip(c) ==
    Called("Code(Key)", c, KeyOfCode(c), CodeOfKey(KeyOfCode(c)))

\* the codes two of which are compared: made from a code and a depth, from
\* a key, and by parent, child and sibling
Seeds == {Code(0, 2), Code(8, 1), Code(15, 1), Code(9, 0), Code(1, 0)}
FromKeys == {CodeOfKey(Key(x, y, 0, d)) : x \in {0, 1, 2}, y \in {0, 3}, d \in {0, 1}}
Derived ==
    {CodeChild(c, i) : c \in Seeds, i \in {0, 1}}
        \cup {CodeSibling(c, i) : c \in Seeds, i \in {0, 1}}
        \cup UNION {{r.code : r \in CodeParent(c, 2)} : c \in Seeds}
ComparedCodes == Seeds \cup FromKeys \cup Derived

\* operator==(lhs, rhs)
CodeEq(lhs, rhs) == lhs = rhs

Compare(lhs, rhs) == Called("operator==", lhs, rhs, CodeEq(lhs, rhs))

NextCodes ==
    \/ \E c \in MadeCodes \cup RawCodes : RoundTrip(c)
    \/ \E lhs \in ComparedCodes, rhs \in ComparedCodes : Compare(lhs, rhs)

SpecCodes == InitConv /\ [][NextCodes]_vars

\* C19: a code whose bits below its depth are zero, converted to a key and
\* that key converted to a code, is the code it was.
C19_CodeKeyRoundTrip ==
    (lastOp.op = "Code(Key)" /\ WellDefined(lastOp.code))
        => /\ lastOp.result = lastOp.code
           /\ lastOp.arg[4] = CodeDepth(lastOp.code)

C19_Witness ==
    /\ lastOp.op = "Code(Key)"
    /\ lastOp.code = Code(Pow2(24) + Pow2(13) + 7, 1)
    /\ lastOp.arg # <<0, 0, 0, 1>>
    /\ lastOp.result = lastOp.code

\* the node a code refers to: its depth and the child indices that lead to
\* it from above (the codes compared have no bit above the index of depth 8)
NodeOf(c) == <<CodeDepth(c), [d \in CodeDepth(c) .. 8 |-> CodeIndex(c, d)]>>

Word == 0 .. 63

\* the word whose set bits are those of a set of positions
W(set) == [p \in Word |-> p \in set]

\* the word of a hexadecimal literal, given by its digits
Hex(digits) ==
    [p \in Word |-> LET i == Len(digits) - (p \div 4) IN
                        i >= 1 /\ (digits[i] \div Pow2(p % 4)) % 2 = 1]

\* the word of a number below 2^30, and the number of the low 30 bits of a
\* word
Bits(n) == [p \in Word |-> p < 30 /\ (n \div Pow2(p)) % 2 = 1]
RECURSIVE NumFrom(_, _)
NumFrom(a, p) == IF p >= 30 THEN 0 ELSE (IF a[p] THEN Pow2(p) ELSE 0) + NumFrom(a, p + 1)
Num(a) == NumFrom(a, 0)

\* a << n and a >> n for a count below 64; a & b, a | b, a ^ b
Shl(a, n) == [p \in Word |-> p >= n /\ a[p - n]]
Shr(a, n) == [p \in Word |-> p + n <= 63 /\ a[p + n]]
And(a, b) == [p \in Word |-> a[p] /\ b[p]]
Or(a, b) == [p \in Word |-> a[p] \/ b[p]]
Xor(a, b) == [p \in Word |-> a[p] # b[p]]
Zero == [p \in Word |-> FALSE]

RECURSIVE Carry(_, _, _)
\* the carry into position p of a + b
Carry(a, b, p) ==
    IF p = 0 THEN FALSE
    ELSE \/ a[p - 1] /\ b[p - 1]
         \/ (a[p - 1] \/ b[p - 1]) /\ Carry(a, b, p - 1)

\* a + b modulo 2^64
Add(a, b) == [p \in Word |-> (a[p] # b[p]) # Carry(a, b, p)]

\* a shift by a count of 64 or more is undefined: the shift instruction of
\* x86-64 takes the count modulo 64, that of AArch64 gives 0
ShlAny(a, n) == IF n < 64 THEN {Shl(a, n)} ELSE {Shl(a, n % 64), Zero}
ShrAny(a, n) == IF n < 64 THEN {Shr(a, n)} ELSE {Shr(a, n % 64), Zero}

\* _pdep_u64(a, mask) and _pext_u64(a, mask)
Rank(mask, p) == Cardinality({q \in 0 .. p - 1 : mask[q]})
pdep(a, mask) == [p \in Word |-> mask[p] /\ a[Rank(mask, p)]]
pext(a, mask) == [r \in Word |-> \E p \in Word : mask[p] /\ a[p] /\ Rank(mask, p) = r]

\* static_cast<key_t>(a): the low 32 bits
key_t(a) == [p \in Word |-> p < 32 /\ a[p]]

x1fffff == Hex(<<1, 15, 15, 15, 15, 15>>)
x1f00000000ffff == Hex(<<1, 15, 0, 0, 0, 0, 0, 0, 0, 0, 15, 15, 15, 15>>)
x1f0000ff0000ff == Hex(<<1, 15, 0, 0, 0, 0, 15, 15, 0, 0, 0, 0, 15, 15>>)
x100f00f00f00f00f == Hex(<<1, 0, 0, 15, 0, 0, 15, 0, 0, 15, 0, 0, 15, 0, 0, 15>>)
x10c30c30c30c30c3 == Hex(<<1, 0, 12, 3, 0, 12, 3, 0, 12, 3, 0, 12, 3, 0, 12, 3>>)
x1249249249249249 == Hex(<<1, 2, 4, 9, 2, 4, 9, 2, 4, 9, 2, 4, 9, 2, 4, 9>>)
x9249249249249249 == Hex(<<9, 2, 4, 9, 2, 4, 9, 2, 4, 9, 2, 4, 9, 2, 4, 9>>)
x2492492492492492 == Hex(<<2, 4, 9, 2, 4, 9, 2, 4, 9, 2, 4, 9, 2, 4, 9, 2>>)
x4924924924924924 == Hex(<<4, 9, 2, 4, 9, 2, 4, 9, 2, 4, 9, 2, 4, 9, 2, 4>>)
x4924924924924920 == Hex(<<4, 9, 2, 4, 9, 2, 4, 9, 2, 4, 9, 2, 4, 9, 2, 0>>)
x9249249249249240 == Hex(<<9, 2, 4, 9, 2, 4, 9, 2, 4, 9, 2, 4, 9, 2, 4, 0>>)
x2492492492492480 == Hex(<<2, 4, 9, 2, 4, 9, 2, 4, 9, 2, 4, 9, 2, 4, 8, 0>>)

\* splitBy3 whose first mask is one bit short
splitBy3Shifts20(a) ==
    LET c0 == And(a, W(0 .. 19))
        c1 == And(Or(c0, Shl(c0, 32)), x1f00000000ffff)
        c2 == And(Or(c1, Shl(c1, 16)), x1f0000ff0000ff)
        c3 == And(Or(c2, Shl(c2, 8)), x100f00f00f00f00f)
        c4 == And(Or(c3, Shl(c3, 4)), x10c30c30c30c30c3) IN
    And(Or(c4, Shl(c4, 2)), x1249249249249249)

\* splitBy3(a) of the build without BMI2
splitBy3Shifts(a) ==
    LET c0 == And(a, x1fffff)
        c1 == And(Or(c0, Shl(c0, 32)), x1f00000000ffff)
        c2 == And(Or(c1, Shl(c1, 16)), x1f0000ff0000ff)
        c3 == And(Or(c2, Shl(c2, 8)), x100f00f00f00f00f)
        c4 == And(Or(c3, Shl(c3, 4)), x10c30c30c30c30c3) IN
    And(Or(c4, Shl(c4, 2)), x1249249249249249)

\* splitBy3(a) of the build with BMI2
splitBy3Pdep(a) == pdep(a, x9249249249249249)

\* get3Bits(code) of the build without BMI2
get3BitsShifts(code) ==
    LET a0 == And(code, x1249249249249249)
        a1 == And(Xor(a0, Shr(a0, 2)), x10c30c30c30c30c3)
        a2 == And(Xor(a1, Shr(a1, 4)), x100f00f00f00f00f)
        a3 == And(Xor(a2, Shr(a2, 8)), x1f0000ff0000ff)
        a4 == And(Xor(a3, Shr(a3, 16)), x1f00000000ffff) IN
    key_t(And(Xor(a4, Shr(a4, 32)), x1fffff))

\* get3Bits(code) of the build with BMI2
get3BitsPext(code) == key_t(pext(code, x9249249249249249))

\* Code::toCode(key) of the two builds; a key is <<x, y, z, depth>> with
\* words for x, y and z
toCodePdep(key) ==
    Or(pdep(key[1], x9249249249249249),
       Or(pdep(key[2], x2492492492492492), pdep(key[3], x4924924924924924)))

toCodeShifts(key) ==
    Or(splitBy3Shifts(key[1]),
       Or(Shl(splitBy3Shifts(key[2]), 1), Shl(splitBy3Shifts(key[3]), 2)))

\* Key(x, y, z, depth) on words
KeyW(x, y, z, depth) ==
    <<And(x, W(depth .. 63)), And(y, W(depth .. 63)), And(z, W(depth .. 63)), depth>>

\* Code::depth() on a word
depth64(c) == Num(And(c, Bits(31)))

\* Code::operator Key of the two builds
KeyPext(c) ==
    KeyW(key_t(pext(c, x4924924924924920)), key_t(pext(c, x9249249249249240)),
         key_t(pext(c, x2492492492492480)), depth64(c))

KeyShifts(c) ==
    KeyW(get3BitsShifts(Shr(c, 5)), get3BitsShifts(Shr(c, 6)),
         get3BitsShifts(Shr(c, 7)), depth64(c))

\* Code(Key) of the build without BMI2
CodeOfKey64(key) == Or(Shl(toCodeShifts(key), 5), Bits(key[4]))

\* the key components and the codes the two builds are compared on
KeyWords == {W({}), Bits(5), W({20}), W(0 .. 20), W({0, 19})}
KeysW == {<<x, y, z, 0>> : x \in KeyWords, y \in KeyWords, z \in KeyWords}
CodeWords ==
    {W(Word), W({63}), W({61, 62}), Bits(32 * 73 + 1)}
        \cup {CodeOfKey64(<<x, y, W({20}), 0>>) : x \in KeyWords, y \in KeyWords}

ToCodeBoth(key) ==
    Called("toCode", 0, key, [bmi2 |-> toCodePdep(key), shifts |-> toCodeShifts(key)])

ToKeyBoth(c) ==
    Called("operator Key", 0, c, [bmi2 |-> KeyPext(c), shifts |-> KeyShifts(c)])

SplitBy3Both(a) ==
    Called("splitBy3", 0, a, [bmi2 |-> splitBy3Pdep(a), shifts |-> splitBy3Shifts(a)])

Get3BitsBoth(c) ==
    Called("get3Bits", 0, c, [bmi2 |-> get3BitsPext(c), shifts |-> get3BitsShifts(c)])

NextWords ==
    \/ \E key \in KeysW : ToCodeBoth(key)
    \/ \E c \in CodeWords : ToKeyBoth(c)
    \/ \E a \in KeyWords : SplitBy3Both(a)
    \/ \E c \in CodeWords : Get3BitsBoth(Shr(c, 5))

SpecWords == InitConv /\ [][NextWords]_vars

\* C23: the build with BMI2 and the build without it give the same code
\* for a key whose components are below 2^21, and the same key for a code.
C23_BuildsAgree ==
    lastOp.op \in {"toCode", "operator Key", "splitBy3", "get3Bits"}
        => lastOp.result.bmi2 = lastOp.result.shifts

C23_Witness ==
    /\ lastOp.op = "toCode"
    /\ lastOp.arg[3] = W(0 .. 20)
    /\ lastOp.arg[1] = W({20})
    /\ lastOp.result.shifts[62]
    /\ lastOp.result.bmi2[60]
    /\ lastOp.result.bmi2 = lastOp.result.shifts

\* -------------------------------------------------------------------------
\* Code on 64-bit words: the constructor, index, child and parent

\* Code(code, depth) that keeps the digits below depth
Code64Uncut(code, depth) == {Or(Shl(code, 5), Bits(depth))}

\* Code(code, depth): code_ of the constructed code; the left shift has a
\* count of 64 or more from depth 20 on
Code64(code, depth) ==
    {Or(w, Bits(depth)) : w \in ShlAny(Shr(code, 3 * depth), 3 * depth + 5)}

\* Code::index(depth)
index64(c, depth) == {Num(And(w, Bits(7))) : w \in ShrAny(c, 3 * depth + 5)}

\* Code::child(index)
child64(c, index) ==
    IF depth64(c) = 0 THEN {c}
    ELSE Code64(Add(Shr(c, 5), Shl(Bits(index), 3 * (depth64(c) - 1))), depth64(c) - 1)

\* Code::parent(parent_depth), called with parent_depth >= depth()
parent64(c, parent_depth) == Code64(Shr(c, 5), parent_depth)

\* the depths codes are taken at: the lowest ones and those of the root and
\* its children in maps of 20, 21 and 22 levels
Depths64 == {0, 1, 2, 19, maxDepthLevels - 2, maxDepthLevels - 1}
CodeValues == {Zero, Bits(73), W({0, 3, 57, 58}), W(0 .. 58)}
Codes64 == UNION {Code64(v, d) : v \in CodeValues, d \in Depths64}

ChildOf(c, i) ==
    \E ch \in child64(c, i) :
        \E idx \in index64(ch, depth64(c) - 1) :
            \E p \in parent64(ch, depth64(c)) :
                Called("child", 0, [c |-> c, index |-> i],
                       [child |-> ch, depth |-> depth64(ch), index |-> idx, parent |-> p])

ParentOf(c, pd) ==
    \E p \in parent64(c, pd) :
        Called("parent", 0, [c |-> c, parent_depth |-> pd], p)

NextCodes64 ==
    \/ \E c \in Codes64, i \in 0 .. 7 : depth64(c) > 0 /\ ChildOf(c, i)
    \/ \E c \in Codes64, pd \in Depths64 : pd >= depth64(c) /\ ParentOf(c, pd)

SpecCodes64 == InitConv /\ [][NextCodes64]_vars

\* C21: the child i of a code of depth d > 0 has depth d - 1, has i as its
\* index at depth d - 1, and has the code as its parent at depth d.
C21_ChildOfCode ==
    lastOp.op = "child"
        => /\ lastOp.result.depth = depth64(lastOp.arg.c) - 1
           /\ lastOp.result.index = lastOp.arg.index
           /\ lastOp.result.parent = lastOp.arg.c

\* C21, for the codes whose children have a depth of 18 or less
C21_ChildOfShallowCode ==
    lastOp.op = "child" /\ depth64(lastOp.arg.c) <= 19
        => /\ lastOp.result.depth = depth64(lastOp.arg.c) - 1
           /\ lastOp.result.index = lastOp.arg.index
           /\ lastOp.result.parent = lastOp.arg.c

C21_ShallowWitness ==
    /\ lastOp.op = "child"
    /\ depth64(lastOp.arg.c) = 19
    /\ lastOp.arg.index = 7
    /\ lastOp.result.index = 7
    /\ lastOp.result.parent = lastOp.arg.c

\* C22: the parent of a code at a depth pd that is not below the code's has
\* depth pd, has no bit set in the digits below pd, and has the bits of the
\* code in the digits at pd and above.
C22_ParentOfCode ==
    lastOp.op = "parent"
        => /\ depth64(lastOp.result) = lastOp.arg.parent_depth
           /\ \A p \in 5 .. 63 :
                  lastOp.result[p] = (p >= 3 * lastOp.arg.parent_depth + 5 /\ lastOp.arg.c[p])

C22_Witness ==
    /\ lastOp.op = "parent"
    /\ depth64(lastOp.arg.c) = 1
    /\ lastOp.arg.parent_depth = 2
    /\ lastOp.arg.c[8]
    /\ ~lastOp.result[8]
    /\ lastOp.result[11]
    /\ lastOp.result[63]

\* ------------------------------------------------------------------------
\* Write and read
\* ------------------------------------------------------------------------
\* the file is [tree, nodes]: the tree structure, a sequence of index fields,
\* and the payloads of the nodes written, a sequence of eight values each

RECURSIVE dataRecurs(_, _, _, _)
RECURSIVE dataChildren(_, _, _, _, _, _)

\* the loop "for i in 0..7: if valid_inner[i]" of dataRecurs
dataChildren(S, r, depth, valid_inner, i, out) ==
    IF i = 8 THEN out
    ELSE IF i \notin valid_inner THEN dataChildren(S, r, depth, valid_inner, i + 1, out)
    ELSE dataChildren(S, r, depth, valid_inner, i + 1,
                      dataRecurs(S, ChildRef(S, r, i), depth - 1, out))

\* dataRecurs(node, predicates, tree, nodes) with the predicates
\* Leaf && DepthMin(0) && Exists of write, on the node r with slots at depth
dataRecurs(S, r, depth, out) ==
    LET n == GetNode(S, r)
        valid_return == IF depth = 0 THEN AllBits ELSE n.leaf
        valid_inner == IF depth = 0 THEN NoBits ELSE AllBits \ n.leaf
        Own(nodes) == IF valid_return # {} THEN Append(nodes, n.val) ELSE nodes
        \* nothing written below: take the node out of the tree structure
        Cut(tree, cur_tree_size) ==
            [k \in 1 .. cur_tree_size |-> IF k >= cur_tree_size - 1 THEN NoBits ELSE tree[k]]
        Done(o, cur_tree_size) ==
            IF Len(o.nodes) = Len(out.nodes)
            THEN [o EXCEPT !.tree = Cut(o.tree, cur_tree_size)]
            ELSE o IN
    IF depth = 0
    THEN [tree |-> Append(out.tree, valid_return), nodes |-> Own(out.nodes)]
    ELSE Done(dataChildren(S, r, depth, valid_inner, 0,
                           [tree |-> out.tree \o <<valid_return, valid_inner>>,
                            nodes |-> Own(out.nodes)]),
              Len(out.tree) + 2)

\* data(predicates), as write calls it
data(S) ==
    LET valid_return == rootIndex \in S.root_.leaf
        Bit(b) == IF b THEN {rootIndex} ELSE NoBits
        Checked(o) == IF o.nodes = <<>> THEN [o EXCEPT !.tree = <<>>] ELSE o IN
    IF valid_return
    THEN [tree |-> <<Bit(TRUE), Bit(FALSE)>>, nodes |-> <<S.root_.val>>]
    ELSE Checked(dataRecurs(S, ChildRef(S, RootRef, rootIndex), rootDepth(S) - 1,
                            [tree |-> <<Bit(FALSE), Bit(TRUE)>>, nodes |-> <<>>]))

\* write(out, predicates, min_depth): the tree structure and the nodes
write(S) == data(S)

RECURSIVE createChildren(_, _, _, _, _)
\* createInnerChildren(node, indices, depth) and createLeafChildren(node,
\* indices): the slots of indices that are leaves get their children
createChildren(S, r, indices, i, depth) ==
    IF i = 8 \/ S.fault # "none" THEN S
    ELSE IF i \notin indices THEN createChildren(S, r, indices, i + 1, depth)
    ELSE createChildren(IF depth = 1 THEN createLeafChildren(S, r, i)
                        ELSE createInnerChildren(S, r, i, depth),
                        r, indices, i + 1, depth)

\* node.modified |= indices
SetModifiedBits(S, r, indices) ==
    SetNode(S, r, [GetNode(S, r) EXCEPT !.modified = @ \cup indices])

RECURSIVE retrieveNodesRecurs(_, _, _, _, _)
\* retrieveNodesRecurs(block, indices, depth, tree, nodes) on the block b of
\* nodes with slots at depth, from node i on; R is the map, the tree
\* structure, the position in it and the nodes found
retrieveNodesRecurs(R, b, indices, i, depth) ==
    LET r == <<b, i>>
        valid_return == R.tree[R.pos]
        valid_inner == R.tree[R.pos + 1]
        Next1(R1) == retrieveNodesRecurs(R1, b, indices, i + 1, depth)
        \* node[i].modified |= valid_return | valid_inner
        Marked(R2) ==
            Next1([R2 EXCEPT !.S = SetModifiedBits(R2.S, r, valid_return \cup valid_inner)])
        Below(R1) ==
            IF valid_inner = {} \/ R1.S.fault # "none" THEN R1
            ELSE retrieveNodesRecurs(R1, GetNode(R1.S, r).children, valid_inner, 0,
                                     depth - 1) IN
    IF i = 8 \/ R.S.fault # "none" THEN R
    ELSE IF i \notin indices THEN Next1(R)
    ELSE IF R.pos + (IF depth = 0 THEN 0 ELSE 1) > Len(R.tree)
    THEN [R EXCEPT !.S = Fault(R.S, "out_of_bounds")]
    ELSE IF depth = 0
    THEN Next1([R EXCEPT !.pos = @ + 1,
                         !.nodes = Append(@, <<r, valid_return>>),
                         !.S = SetModifiedBits(R.S, r, valid_return)])
    ELSE Marked(Below([R EXCEPT
                 !.pos = @ + 2,
                 !.nodes = IF valid_return # {} THEN Append(@, <<r, valid_return>>) ELSE @,
                 !.S = createChildren(R.S, r, valid_inner, 0, depth)]))

\* retrieveNodes(tree, num_nodes)
retrieveNodes(S, tree) ==
    IF Len(tree) < 2 THEN [S |-> Fault(S, "out_of_bounds"), tree |-> tree, pos |-> 1,
                           nodes |-> <<>>]
    ELSE IF tree[1] # {}
    THEN [S |-> SetModifiedBit(S, RootRef, rootIndex), tree |-> tree, pos |-> 3,
          nodes |-> <<<<RootRef, tree[1]>>>>]
    ELSE IF tree[2] # {}
    THEN LET Created(S1) ==
                 retrieveNodesRecurs([S |-> S1, tree |-> tree, pos |-> 3, nodes |-> <<>>],
                                     S1.root_.children, tree[2], 0, rootDepth(S1) - 1) IN
         Created(createInnerChildren(S, RootRef, rootIndex, rootDepth(S)))
    ELSE [S |-> S, tree |-> tree, pos |-> 3, nodes |-> <<>>]

RECURSIVE readPayloads(_, _, _, _)
\* derived().readNodes(in, first, last, ...): the k-th node found takes the
\* payload of the k-th node written, which the file holds for its eight slots
readPayloads(S, found, payloads, k) ==
    IF k > Len(found) \/ k > Len(payloads) THEN S
    ELSE LET r == found[k][1]
             n == GetNode(S, r) IN
         readPayloads(SetNode(S, r, [n EXCEPT !.val = payloads[k]]),
                      found, payloads, k + 1)

\* readData(in, header, propagate) for a header with the size and the depth
\* levels of the map
readData(S, file, propagate) ==
    LET Read(R) == IF R.S.fault # "none" THEN R.S
                   ELSE readPayloads(R.S, R.nodes, file.nodes, 1)
        ThenPropagated(S1) == IF propagate /\ S1.fault = "none"
                          THEN propagateModified(S1, FALSE, maxDepthLevels)
                          ELSE S1 IN
    ThenPropagated(Read(retrieveNodes(S, file.tree)))

\* a map constructed with the parameters of S
FreshMap(S) ==
    [S EXCEPT !.root_ = initRoot(DefaultNode),
              !.blocks = [b \in BlockIds |-> DefaultBlock],
              !.owner = [b \in BlockIds |-> "sys"],
              !.free_inner_blocks = <<>>, !.free_leaf_blocks = <<>>,
              !.num_inner_nodes = 0, !.num_inner_leaf_nodes = 1, !.num_leaf_nodes = 0,
              !.fault = "none"]

RECURSIVE EnumerateUnder(_, _, _, _)
\* the nodes a query for Exists yields below a slot: <<code, depth, payload,
\* leaf>> with the code as the path of indices from the root
EnumerateUnder(S, r, depth, path) ==
    UNION {{<<path * 8 + i, depth, GetNode(S, r).val[i],
              depth = 0 \/ i \in GetNode(S, r).leaf>>}
           \cup (IF depth = 0 \/ i \in GetNode(S, r).leaf THEN {}
                 ELSE EnumerateUnder(S, ChildRef(S, r, i), depth - 1, path * 8 + i))
           : i \in Indices}

Enumerate(S) ==
    {<<0, rootDepth(S), S.root_.val[rootIndex], rootIndex \in S.root_.leaf>>}
    \cup (IF rootIndex \in S.root_.leaf THEN {}
          ELSE EnumerateUnder(S, ChildRef(S, RootRef, rootIndex), rootDepth(S) - 1, 0))

Leaves(S) == {e \in Enumerate(S) : e[4]}

\* write to a buffer, then read(buffer, propagate) into a fresh map
WriteRead(propagate) ==
    LET Copied(S2) ==
            Called("writeRead", 0, propagate,
                   [fault |-> S2.fault,
                    file |-> write(Cur),
                    original |-> Enumerate(Cur),
                    copy |-> IF S2.fault = "none" THEN Enumerate(S2) ELSE {},
                    observed |-> Observed(Cur),
                    observed_copy |-> IF S2.fault = "none" THEN Observed(S2) ELSE <<>>,
                    modified |-> IF S2.fault = "none" THEN ~Clean(S2) ELSE FALSE,
                    propagated |-> Clean(Cur)]) IN
    Copied(readData(FreshMap(Cur), write(Cur), propagate))

NextIO ==
    \/ \E code \in ApplyCodes, v \in WriteValues : ApplyPropagate(code, v)
    \/ \E code \in ApplyCodes, v \in WriteValues : Apply(code, v)
    \/ \E propagate \in BOOLEAN : WriteRead(propagate)

SpecIO == Init /\ [][NextIO]_vars

\* C25: a map written and read into a fresh map enumerates the same (code,
\* payload) pairs, up to the collapsing of homogeneous subtrees: at every
\* code the payload in force is the same.
C25_RoundTrip ==
    (lastOp.op = "writeRead" /\ lastOp.arg /\ lastOp.result.propagated
        /\ lastOp.result.fault = "none")
        => lastOp.result.observed_copy = lastOp.result.observed

\* C25, for the leaves: the copy has the leaves of the original, with their
\* payloads
C25_LeavesRoundTrip ==
    (lastOp.op = "writeRead" /\ lastOp.result.fault = "none")
        => {e \in lastOp.result.copy : e[4]} = {e \in lastOp.result.original : e[4]}

\* the payload in force at the root code is not that of the original
C25_RootWitness ==
    /\ lastOp.op = "writeRead" /\ lastOp.arg /\ lastOp.result.propagated
    /\ lastOp.result.fault = "none"
    /\ lastOp.result.observed[Code(0, InitDepthLevels - 1)] = 1
    /\ lastOp.result.observed_copy[Code(0, InitDepthLevels - 1)] = 0
    /\ lastOp.result.modified

C25_LeavesWitness ==
    /\ lastOp.op = "writeRead" /\ lastOp.result.fault = "none"
    /\ Len(lastOp.result.file.nodes) > 2
    /\ \E e \in lastOp.result.copy : e[4] /\ e[2] = 0 /\ e[3] # 0

\* ------------------------------------------------------------------------
\* Threads racing in createInnerChildren, createLeafChildren and
\* deleteChildren, statement by statement
\* ------------------------------------------------------------------------
LockModes == {"NONE", "NODE", "DEPTH"}

\* !flag.test_and_set(): the flag was clear
tryLockAlways(flag) == TRUE

tryLock(flag) == flag = 0

\* whether the call of a thread works on leaf children
OnLeaves(th) == th.fn \in {"createLeafChildren", "deleteLeafChildren"}

\* "if constexpr (UFOLock::NONE != Lock)" of createLeafChildren and
\* "if constexpr (UFOLock::DEPTH == Lock)" of createInnerChildren
Configured(th) ==
    IF th.fn = "createLeafChildren" THEN Lock # "NONE"
    ELSE th.fn = "createInnerChildren" /\ Lock = "DEPTH"

\* the depth lockIfLeaf and unlock are called with
LockDepth(th) == IF OnLeaves(th) THEN 0 ELSE th.depth

\* the flag lockIfLeaf(node, index, depth) sets and unlock(node, depth) clears
TreeLock(lk, th) ==
    IF Lock = "DEPTH" THEN lk.children_locks_[LockDepth(th)] ELSE lk.node_lock[th.node]

SetTreeLock(lk, th, v) ==
    IF Lock = "DEPTH" THEN [lk EXCEPT !.children_locks_[LockDepth(th)] = v]
    ELSE IF Lock = "NODE" THEN [lk EXCEPT !.node_lock[th.node] = v]
    ELSE lk

\* the pool of the call, its flag, and whether the call takes the flag:
\* allocate...Children takes it unless Lock is NONE, deallocateLeafChildren
\* likewise, deallocateInnerChildren only when Lock is DEPTH
Pool(S, th) == IF OnLeaves(th) THEN S.free_leaf_blocks ELSE S.free_inner_blocks

SetPool(S, th, pool) ==
    IF OnLeaves(th) THEN [S EXCEPT !.free_leaf_blocks = pool]
    ELSE [S EXCEPT !.free_inner_blocks = pool]

PoolLock(lk, th) ==
    IF OnLeaves(th) THEN lk.free_leaf_block_lock_ ELSE lk.free_inner_block_lock_

SetPoolLock(lk, th, v) ==
    IF OnLeaves(th) THEN [lk EXCEPT !.free_leaf_block_lock_ = v]
    ELSE [lk EXCEPT !.free_inner_block_lock_ = v]

PoolLockTaken(th) ==
    IF th.fn = "deleteChildren" THEN Lock = "DEPTH" ELSE Lock # "NONE"

\* one statement of thread t: the map, the flags and the thread after it
RaceStep(t, S, lk, th) ==
    /\ Becomes(S)
    /\ locks' = lk
    /\ racers' = [racers EXCEPT ![t] = th]
    /\ UNCHANGED <<alive, lastOp, writer, propagator, overlap, calls, Lock>>

\* a statement that reads or writes the node of the call: the node may lie
\* in a block that was deleted
OnNode(t, S, lk, th) ==
    IF Dangling(Cur, racers[t].node)
    THEN RaceStep(t, Fault(Cur, "use_after_free"), locks, racers[t])
    ELSE RaceStep(t, S, lk, th)

RacerAt(t, pc) == Running /\ racers[t].pc = pc

Goto(t, pc) == [racers[t] EXCEPT !.pc = pc]

TheNode(t) == GetNode(Cur, racers[t].node)

IsLeafBit(t) == racers[t].index \in TheNode(t).leaf

\* the nodes a call can be made on: the root, and the child of the root slot
\* once the root is split
CallTargets ==
    {<<RootRef, rootIndex, rootDepth(Cur)>>}
    \cup (IF rootIndex \in root_.leaf \/ root_.children = nullptr THEN {}
          ELSE {<<ChildRef(Cur, RootRef, rootIndex), i, rootDepth(Cur) - 1>> : i \in {0, 1}})

\* the calls the two threads make between them
RaceCalls == MaxCalls - 1

RaceCall(t, fn, target) ==
    /\ RacerAt(t, "idle")
    /\ calls < RaceCalls
    /\ calls' = calls + 1
    /\ racers' = [racers EXCEPT ![t] =
                     [pc |-> "begin", fn |-> fn, node |-> target[1], index |-> target[2],
                      depth |-> target[3]]]
    /\ Becomes(Cur)
    /\ UNCHANGED <<alive, lastOp, writer, propagator, overlap, Lock, locks>>

\* apply calls createInnerChildren(*cur, index, depth) above depth 1 and
\* createLeafChildren(*cur, index) at depth 1
CallCreate(t, target) ==
    RaceCall(t, IF target[3] = 1 THEN "createLeafChildren" ELSE "createInnerChildren",
             target)

\* prune calls deleteChildren(node, index, depth), which calls
\* deleteLeafChildren(node, index) at depth 1
CallDelete(t, target) ==
    RaceCall(t, IF target[3] = 1 THEN "deleteLeafChildren" ELSE "deleteChildren", target)

Begin(t) ==
    /\ RacerAt(t, "begin")
    /\ RaceStep(t, Cur, locks,
                Goto(t, IF OnLeaves(racers[t]) = (racers[t].fn = "createLeafChildren")
                           /\ racers[t].fn \in {"createLeafChildren", "createInnerChildren"}
                        THEN (IF Configured(racers[t]) THEN "lockIfLeaf" ELSE "test_leaf")
                        ELSE "d_test"))

\* lockIfLeaf: do { if (!node.leaf[index]) return false; } while (...)
LockIfLeaf(t) ==
    /\ RacerAt(t, "lockIfLeaf")
    /\ OnNode(t, Cur, locks, IF IsLeafBit(t) THEN Goto(t, "test_and_set") ELSE IdleRacer)

\* ... while (flag.test_and_set(std::memory_order_acquire))
TestAndSet(t) ==
    /\ RacerAt(t, "test_and_set")
    /\ IF tryLock(TreeLock(locks, racers[t]))
       THEN OnNode(t, Cur, SetTreeLock(locks, racers[t], t), Goto(t, "recheck"))
       ELSE OnNode(t, Cur, locks, Goto(t, "lockIfLeaf"))

\* if (!node.leaf[index]) { unlock(node, depth); return false; } return true;
Recheck(t) ==
    /\ RacerAt(t, "recheck")
    /\ IF IsLeafBit(t) THEN OnNode(t, Cur, locks, Goto(t, "test_leaf"))
       ELSE OnNode(t, Cur, SetTreeLock(locks, racers[t], 0), IdleRacer)

\* if (std::as_const(node).leaf[index])
TestLeaf(t) ==
    /\ RacerAt(t, "test_leaf")
    /\ OnNode(t, Cur, locks, Goto(t, IF IsLeafBit(t) THEN "test_children" ELSE "unlock"))

\* if (!node.inner_children)
TestChildren(t) ==
    /\ RacerAt(t, "test_children")
    /\ OnNode(t, Cur, locks,
              Goto(t, IF TheNode(t).children = nullptr THEN "allocate" ELSE "fill"))

\* allocate...Children: the test of the pool
AllocateChildren(t) ==
    /\ RacerAt(t, "allocate")
    /\ RaceStep(t, Cur, locks,
                Goto(t, IF ~ReuseNodes \/ Pool(Cur, racers[t]) = <<>> THEN "new"
                        ELSE IF Lock = "NONE" THEN "top"
                        ELSE "pool_test_and_set"))

\* lockIfNonEmpty...: ... while (!tryLock...())
PoolTestAndSet(t) ==
    /\ RacerAt(t, "pool_test_and_set")
    /\ IF tryLock(PoolLock(locks, racers[t]))
       THEN RaceStep(t, Cur, SetPoolLock(locks, racers[t], t), Goto(t, "pool_recheck"))
       ELSE RaceStep(t, Cur, locks, Goto(t, "allocate"))

\* if (free_..._blocks_.empty()) { unlock...(); return false; } return true;
PoolRecheck(t) ==
    /\ RacerAt(t, "pool_recheck")
    /\ IF Pool(Cur, racers[t]) = <<>>
       THEN RaceStep(t, Cur, SetPoolLock(locks, racers[t], 0), Goto(t, "new"))
       ELSE RaceStep(t, Cur, locks, Goto(t, "top"))

\* node.children = free_..._blocks_.top()
PoolTop(t) ==
    /\ RacerAt(t, "top")
    /\ IF Pool(Cur, racers[t]) = <<>>
       THEN RaceStep(t, Fault(Cur, "top_of_empty"), locks, racers[t])
       ELSE OnNode(t, SetNode(Cur, racers[t].node,
                              [TheNode(t) EXCEPT !.children = Head(Pool(Cur, racers[t]))]),
                   locks, Goto(t, "pop"))

\* free_..._blocks_.pop(); unlock...()
PoolPop(t) ==
    LET Popped(b) ==
            RaceStep(t, [SetPool(Cur, racers[t], Tail(Pool(Cur, racers[t])))
                            EXCEPT !.owner[b] = "tree"],
                     IF Lock = "NONE" THEN locks ELSE SetPoolLock(locks, racers[t], 0),
                     Goto(t, "fill")) IN
    /\ RacerAt(t, "pop")
    /\ IF Pool(Cur, racers[t]) = <<>>
       THEN RaceStep(t, Fault(Cur, "pop_of_empty"), locks, racers[t])
       ELSE Popped(Head(Pool(Cur, racers[t])))

\* node.children = new ...NodeBlock()
NewChildren(t) ==
    /\ RacerAt(t, "new")
    /\ OnNode(t, NewBlock(Cur, racers[t].node), locks, Goto(t, "fill"))

\* ...Child(node, index).fill(node, index)
FillChild(t) ==
    LET Filled(c) ==
            IF TheNode(t).children = nullptr
            THEN RaceStep(t, Fault(Cur, "null_deref"), locks, racers[t])
            ELSE IF Dangling(Cur, c)
            THEN RaceStep(t, Fault(Cur, "use_after_free"), locks, racers[t])
            ELSE OnNode(t, SetNode(Cur, c, Fill(GetNode(Cur, c), TheNode(t),
                                                racers[t].index)),
                        locks, Goto(t, "clear_leaf")) IN
    /\ RacerAt(t, "fill")
    /\ Filled(ChildRef(Cur, racers[t].node, racers[t].index))

\* the counters, then node.leaf[index] = false
ClearLeaf(t) ==
    LET Counted(S) ==
            IF OnLeaves(racers[t])
            THEN [S EXCEPT !.num_leaf_nodes = @ + 8, !.num_inner_leaf_nodes = @ - 1,
                           !.num_inner_nodes = @ + 1]
            ELSE [S EXCEPT !.num_inner_leaf_nodes = @ + 7, !.num_inner_nodes = @ + 1] IN
    /\ RacerAt(t, "clear_leaf")
    /\ OnNode(t, Counted(SetNode(Cur, racers[t].node,
                                 [TheNode(t) EXCEPT !.leaf = @ \ {racers[t].index}])),
              locks, Goto(t, "unlock"))

\* unlock(node, depth), where the call has taken the lock
Unlock(t) ==
    /\ RacerAt(t, "unlock")
    /\ RaceStep(t, Cur,
                IF Configured(racers[t]) THEN SetTreeLock(locks, racers[t], 0) ELSE locks,
                IdleRacer)

\* deleteChildren / deleteLeafChildren: if (node.leaf[index]) return;
DeleteTest(t) ==
    /\ RacerAt(t, "d_test")
    /\ OnNode(t, Cur, locks, IF IsLeafBit(t) THEN IdleRacer ELSE Goto(t, "d_set_leaf"))

\* node.leaf[index] = true
DeleteSetLeaf(t) ==
    /\ RacerAt(t, "d_set_leaf")
    /\ OnNode(t, SetNode(Cur, racers[t].node,
                         [TheNode(t) EXCEPT !.leaf = @ \cup {racers[t].index}]),
              locks, Goto(t, "d_child"))

\* deleteChildren(child, depth - 1, manual_pruning); child.clear(), or
\* leafChild(node, index).clear(); the call into the child is one step
DeleteChild(t) ==
    LET Cleared(S, c) == IF S.fault # "none" THEN S ELSE SetNode(S, c, NodeClear(GetNode(S, c)))
        Deleted(c) ==
            IF TheNode(t).children = nullptr
            THEN RaceStep(t, Fault(Cur, "null_deref"), locks, racers[t])
            ELSE IF Dangling(Cur, c)
            THEN RaceStep(t, Fault(Cur, "use_after_free"), locks, racers[t])
            ELSE OnNode(t, Cleared(IF OnLeaves(racers[t]) THEN Cur
                                   ELSE deleteChildren(Cur, c, AllBits \ GetNode(Cur, c).leaf,
                                                       racers[t].depth - 1, FALSE), c),
                        locks, Goto(t, "d_count")) IN
    /\ RacerAt(t, "d_child")
    /\ Deleted(ChildRef(Cur, racers[t].node, racers[t].index))

\* the counters, then if (node.leaf.all())
DeleteCount(t) ==
    LET Counted(S) ==
            IF OnLeaves(racers[t])
            THEN [S EXCEPT !.num_leaf_nodes = @ - 8, !.num_inner_leaf_nodes = @ + 1,
                           !.num_inner_nodes = @ - 1]
            ELSE [S EXCEPT !.num_inner_leaf_nodes = @ - 7, !.num_inner_nodes = @ - 1] IN
    /\ RacerAt(t, "d_count")
    /\ OnNode(t, Counted(Cur), locks,
              IF TheNode(t).leaf = AllBits THEN Goto(t, "deallocate") ELSE IdleRacer)

\* deallocate...Children(node, manual_pruning || automaticPruning())
Deallocate(t) ==
    /\ RacerAt(t, "deallocate")
    /\ RaceStep(t, Cur, locks,
                IF automatic_prune THEN Goto(t, "delete")
                ELSE IF ~ReuseNodes THEN IdleRacer
                ELSE IF PoolLockTaken(racers[t]) THEN Goto(t, "pool_lock")
                ELSE Goto(t, "push"))

\* delete &...Children(node)
DeleteBlockOf(t) ==
    LET Freed(b) ==
            IF b = nullptr THEN Fault(Cur, "null_deref")
            ELSE IF owner[b] # "tree" THEN Fault(Cur, "double_free")
            ELSE [Cur EXCEPT !.owner[b] = "sys", !.blocks[b] = DefaultBlock] IN
    /\ RacerAt(t, "delete")
    /\ OnNode(t, Freed(TheNode(t).children), locks, Goto(t, "null"))

\* lock...(): while (!tryLock...()) {}
PoolLockSpin(t) ==
    /\ RacerAt(t, "pool_lock")
    /\ tryLock(PoolLock(locks, racers[t]))
    /\ RaceStep(t, Cur, SetPoolLock(locks, racers[t], t), Goto(t, "push"))

\* free_..._blocks_.push(...) is entered
PoolPush(t) ==
    /\ RacerAt(t, "push")
    /\ RaceStep(t, Cur, locks, Goto(t, "pushing"))

\* the push is done; unlock...()
PoolPushed(t) ==
    LET Pushed(b) ==
            IF b = nullptr THEN Fault(Cur, "null_deref")
            ELSE [SetPool(Cur, racers[t], <<b>> \o Pool(Cur, racers[t]))
                     EXCEPT !.owner[b] = "pool"] IN
    /\ RacerAt(t, "pushing")
    /\ OnNode(t, Pushed(TheNode(t).children),
              IF PoolLockTaken(racers[t]) THEN SetPoolLock(locks, racers[t], 0) ELSE locks,
              Goto(t, "null"))

\* node...._children = nullptr
NullChildren(t) ==
    /\ RacerAt(t, "null")
    /\ OnNode(t, SetNode(Cur, racers[t].node, [TheNode(t) EXCEPT !.children = nullptr]),
              locks, IdleRacer)

NextRace ==
    \/ \E t \in Threads : \E target \in CallTargets : CallCreate(t, target)
    \/ \E t \in Threads : \E target \in CallTargets : CallDelete(t, target)
    \/ \E t \in Threads : Begin(t)
    \/ \E t \in Threads : LockIfLeaf(t)
    \/ \E t \in Threads : TestAndSet(t)
    \/ \E t \in Threads : Recheck(t)
    \/ \E t \in Threads : TestLeaf(t)
    \/ \E t \in Threads : TestChildren(t)
    \/ \E t \in Threads : AllocateChildren(t)
    \/ \E t \in Threads : PoolTestAndSet(t)
    \/ \E t \in Threads : PoolRecheck(t)
    \/ \E t \in Threads : PoolTop(t)
    \/ \E t \in Threads : PoolPop(t)
    \/ \E t \in Threads : NewChildren(t)
    \/ \E t \in Threads : FillChild(t)
    \/ \E t \in Threads : ClearLeaf(t)
    \/ \E t \in Threads : Unlock(t)
    \/ \E t \in Threads : DeleteTest(t)
    \/ \E t \in Threads : DeleteSetLeaf(t)
    \/ \E t \in Threads : DeleteChild(t)
    \/ \E t \in Threads : DeleteCount(t)
    \/ \E t \in Threads : Deallocate(t)
    \/ \E t \in Threads : DeleteBlockOf(t)
    \/ \E t \in Threads : PoolLockSpin(t)
    \/ \E t \in Threads : PoolPush(t)
    \/ \E t \in Threads : PoolPushed(t)
    \/ \E t \in Threads : NullChildren(t)

\* a map of ConcDepthLevels levels whose root holds a payload, in any lock
\* mode
InitRace ==
    /\ root_ = ApplyF(initRoot(DefaultNode), rootIndex, 1)
    /\ blocks = [b \in BlockIds |-> DefaultBlock]
    /\ owner = [b \in BlockIds |-> "sys"]
    /\ free_inner_blocks = <<>>
    /\ free_leaf_blocks = <<>>
    /\ num_inner_nodes = 0
    /\ num_inner_leaf_nodes = 1
    /\ num_leaf_nodes = 0
    /\ depth_levels = ConcDepthLevels
    /\ automatic_prune \in BOOLEAN
    /\ ReuseNodes \in BOOLEAN
    /\ fault = "none"
    /\ alive = TRUE
    /\ lastOp = NoOp
    /\ writer = IdleWriter
    /\ propagator = IdlePropagator
    /\ overlap = NoOverlap
    /\ calls = 0
    /\ Lock \in LockModes
    /\ locks = Unlocked
    /\ racers = [t \in Threads |-> IdleRacer]

SpecRace == InitRace /\ [][NextRace]_vars

\* a thread is inside top()/pop() or inside push() of the pool of its call
InsidePool(t) == racers[t].pc \in {"pop", "pushing"}

SamePool(t, u) == OnLeaves(racers[t]) = OnLeaves(racers[u])

\* C26: in every lock mode, None included, no two threads are inside a push
\* to or a pop from the same free pool at the same time
C26_PoolExclusive ==
    \A t \in Threads : \A u \in Threads \ {t} :
        ~(InsidePool(t) /\ InsidePool(u) /\ SamePool(t, u))

\* the same, for the calls that take the flag of the pool
C26_GuardedPoolExclusive ==
    \A t \in Threads : \A u \in Threads \ {t} :
        (Lock # "NONE" /\ (Lock = "DEPTH" \/ OnLeaves(racers[t])))
            => ~(InsidePool(t) /\ InsidePool(u) /\ SamePool(t, u))

\* the statements of a split between the test of the leaf bit and the
\* clearing of it
SplitBody ==
    {"test_children", "allocate", "pool_test_and_set", "pool_recheck", "top", "pop",
     "new", "fill", "clear_leaf"}

\* the statements of a deletion from the setting of the leaf bit to the
\* giving up of the block
DeleteBody ==
    {"d_set_leaf", "d_child", "d_count", "deallocate", "delete", "pool_lock", "push",
     "pushing", "null"}

Mutating(t) == racers[t].pc \in SplitBody \cup DeleteBody

HoldsTreeLock(t) == TreeLock(locks, racers[t]) = t

\* C27: in Node and in Depth lock mode a thread that splits a slot of a node
\* or gives up the children of a node holds the lock of the node (Node) or of
\* its depth (Depth) while it does so
C27_MutatorsHoldLock ==
    \A t \in Threads : (Lock # "NONE" /\ Mutating(t)) => HoldsTreeLock(t)

\* the same, for the splits that are compiled with the lock
C27_ConfiguredSplitHoldsLock ==
    \A t \in Threads :
        (racers[t].pc \in SplitBody /\ Configured(racers[t])) => HoldsTreeLock(t)

SameSlot(t, u) ==
    racers[t].node = racers[u].node /\ racers[t].index = racers[u].index

Splitting(t) ==
    racers[t].pc \in SplitBody
    /\ racers[t].fn \in {"createLeafChildren", "createInnerChildren"}

\* C28: in Depth and in Node lock mode, of the threads that split the same
\* leaf slot only one has found the leaf bit set and allocates, fills, counts
\* and clears the bit; no second thread is doing the same for the slot
C28_OneSplitter ==
    \A t \in Threads : \A u \in Threads \ {t} :
        Lock # "NONE" => ~(Splitting(t) /\ Splitting(u) /\ SameSlot(t, u))

\* the same, for the splits that are compiled with the lock
C28_ConfiguredOneSplitter ==
    \A t \in Threads : \A u \in Threads \ {t} :
        (Configured(racers[t]) /\ Configured(racers[u]))
            => ~(Splitting(t) /\ Splitting(u) /\ SameSlot(t, u))

\* the slots the threads split: the slot of the root and, under it, two
\* slots of its child
SplitSlots ==
    {<<RootRef, rootIndex>>}
    \cup (IF rootIndex \in root_.leaf \/ root_.children = nullptr
             \/ Dangling(Cur, ChildRef(Cur, RootRef, rootIndex))
          THEN {}
          ELSE {<<ChildRef(Cur, RootRef, rootIndex), i>> : i \in {0, 1}})

\* the child of the slot is allocated and holds the payload of the slot in
\* its eight slots
Seeded(S, r, i) ==
    /\ GetNode(S, r).children # nullptr
    /\ ~Dangling(S, ChildRef(S, r, i))
    /\ GetNode(S, ChildRef(S, r, i)).val = [j \in Indices |-> GetNode(S, r).val[i]]

\* C29: in Node and in Depth lock mode a thread that observes leaf[i] = 0
\* finds the child block allocated and the child of slot i filled from the
\* slot of the parent
C29_ClearedMeansSeeded ==
    \A sl \in SplitSlots :
        (Lock # "NONE" /\ fault = "none" /\ sl[2] \notin GetNode(Cur, sl[1]).leaf)
            => Seeded(Cur, sl[1], sl[2])

\* the step of thread t that stores a block in node.children: the new
\* expression, or the top() of the pool
Allocates(t) ==
    \/ racers[t].pc = "new" /\ racers'[t].pc = "fill"
    \/ racers[t].pc = "top" /\ racers'[t].pc = "pop"

StepApply(code, v) ==
    /\ propagator.state = "idle"
    /\ Apply(code, v)

\* codes apply is called with between two propagations: a voxel and an
\* inner node above it
StepCodes == {Code(0, 0), Code(0, 2)}

NextSteps ==
    \/ \E code \in StepCodes, v \in WriteValues : StepApply(code, v)
    \/ PBeginAll
    \/ \E code \in ConcPropagateCodes : PBeginCode(code)
    \/ PTopCheck
    \/ PTopLeafReset
    \/ PRecSnapshot
    \/ PRecChild
    \/ PUpdate
    \/ PDeallocate
    \/ PTopReset
    \/ PRecReset
    \/ PReturn

SpecSteps == Init /\ [][NextSteps]_vars

\* the step of the propagator that is the call of updateNode of its frame
UpdatesNode ==
    /\ propagator.state = "running"
    /\ PFrame.pc = "update"
    /\ propagator' # propagator
    /\ fault' = "none"

\* the node of the slot has been propagated: no bit of it is modified
ChildPropagated(S, r, i) == GetNode(S, ChildRef(S, r, i)).modified = NoBits

\* the payload of the slot is the aggregate of its child
SlotUpdated(S, r, i) == GetNode(S, r).val[i] = Aggregate(GetNode(S, ChildRef(S, r, i)))

\* C31: propagation is bottom-up: updateNode of a modified non-leaf slot is
\* called when the propagation of its child is finished, the prune of
\* the slot comes after its update (the slot holds the aggregate of the child
\* as it was before the prune), and the modified bit of a non-leaf slot is
\* cleared only when the slot is updated and its child propagated
C31_BottomUp ==
    [][/\ UpdatesNode =>
            \A i \in FrameIndices(PFrame) :
                /\ ChildPropagated(Cur, PFrame.node, i)
                /\ GetNode(Cur, PFrame.node)'.val[i]
                       = Aggregate(GetNode(Cur, ChildRef(Cur, PFrame.node, i)))
       /\ \A sl \in Slots(Cur) :
              (/\ IsModifiedSlot(Cur, sl)
               /\ ~IsLeafSlot(Cur, sl)
               /\ sl[2] \notin GetNode(Cur, sl[1])'.modified)
                  => /\ ChildPropagated(Cur, sl[1], sl[2])
                     /\ SlotUpdated(Cur, sl[1], sl[2])]_vars

\* the propagator is about to update a slot at depth 2 whose child it has
\* propagated and whose payload is not yet the aggregate
C31_Witness ==
    /\ propagator.state = "running"
    /\ fault = "none"
    /\ PFrame.pc = "update"
    /\ PFrame.depth >= 2
    /\ \E i \in FrameIndices(PFrame) :
           /\ i \notin GetNode(Cur, PFrame.node).leaf
           /\ ChildPropagated(Cur, PFrame.node, i)
           /\ ~SlotUpdated(Cur, PFrame.node, i)

\* ------------------------------------------------------------------------
\* propagateModified(keep_modified, max_depth) and resetModified(max_depth)
\* ------------------------------------------------------------------------
\* the max_depth arguments: below, at and above the depth of the root
MaxDepths == {1, InitDepthLevels - 2, maxDepthLevels}

\* codes apply is called with before a propagation: a voxel and an inner
\* node above it
UpToCodes == {Code(0, 0), Code(0, 2)}

\* propagateModified(keep_modified, max_depth), with the modified slots of
\* the tree before the call and whether the call has collapsed a slot
PropagateUpTo(keep_modified, max_depth) ==
    LET Done(S) ==
            /\ Becomes(S)
            /\ lastOp' = [op |-> "propagateUpTo", code |-> 0, keep |-> keep_modified,
                          depth |-> max_depth, clean |-> Clean(Cur),
                          before |-> ModifiedSlots(Cur),
                          collapsed |-> Slots(S) # Slots(Cur)] IN
    /\ Running
    /\ Done(propagateModified(Cur, keep_modified, max_depth))
    /\ UNCHANGED <<alive, threads>>

NextUpTo ==
    \/ \E code \in UpToCodes, v \in WriteValues : Apply(code, v)
    \/ \E keep_modified \in BOOLEAN, max_depth \in MaxDepths :
          PropagateUpTo(keep_modified, max_depth)

SpecUpTo == Init /\ [][NextUpTo]_vars

Propagated32 == lastOp.op = "propagateUpTo" /\ fault = "none"

\* C32: propagateModified(keep_modified, max_depth) clears the modified bit
\* of a slot only if keep_modified is false and the depth of the slot is at
\* most max_depth; with keep_modified the modified slots after the call are
\* the modified slots before it
C32_ClearsOnlyUpTo ==
    Propagated32 =>
        /\ \A sl \in lastOp.before :
               sl \notin ModifiedSlots(Cur) => (~lastOp.keep /\ sl[3] <= lastOp.depth)
        /\ lastOp.keep => ModifiedSlots(Cur) = lastOp.before

\* C32, for the slots the call leaves in the tree: a slot that the prune of
\* updateNode has collapsed away is no longer a slot, modified or not
C32_ClearsOnlyUpToOfKept ==
    Propagated32 =>
        /\ \A sl \in lastOp.before \cap Slots(Cur) :
               sl \notin ModifiedSlots(Cur) => (~lastOp.keep /\ sl[3] <= lastOp.depth)
        /\ lastOp.keep => ModifiedSlots(Cur) = lastOp.before \cap Slots(Cur)

\* a call with keep_modified on a tree with modified slots, and one with a
\* max_depth below the root that leaves a slot above it modified
C32_Witness ==
    /\ Propagated32
    /\ lastOp.before # {}
    /\ \/ lastOp.keep /\ lastOp.collapsed
       \/ /\ ~lastOp.keep
          /\ lastOp.depth < rootDepth(Cur)
          /\ \E sl \in ModifiedSlots(Cur) : sl[3] > lastOp.depth
          /\ \E sl \in lastOp.before : sl \notin ModifiedSlots(Cur)

RECURSIVE resetModifiedRecurs(_, _, _, _)
RECURSIVE resetChildrenLoop(_, _, _, _, _, _)

\* the loop "for i in 0..7: if modified_parents[i]" of resetModifiedRecurs
resetChildrenLoop(S, r, modified_parents, i, depth, max_depth) ==
    IF i = 8 \/ S.fault # "none" THEN S
    ELSE IF i \notin modified_parents
    THEN resetChildrenLoop(S, r, modified_parents, i + 1, depth, max_depth)
    ELSE IF GetNode(S, r).children = nullptr THEN Fault(S, "null_deref")
    ELSE resetChildrenLoop(resetModifiedRecurs(S, ChildRef(S, r, i), depth - 1, max_depth),
                           r, modified_parents, i + 1, depth, max_depth)

\* "for (auto& child : leafChildren(node)) child.modified.reset()"
ResetLeafChildren(S, r) ==
    IF GetNode(S, r).children = nullptr THEN Fault(S, "null_deref")
    ELSE [S EXCEPT !.blocks[GetNode(S, r).children] =
                       [i \in Indices |-> [@[i] EXCEPT !.modified = NoBits]]]

resetModifiedRecurs(S, r, depth, max_depth) ==
    LET n == GetNode(S, r)
        modified_parents == n.modified \ n.leaf
        Reset(S1) == IF S1.fault = "none" /\ depth <= max_depth
                     THEN ResetModifiedOf(S1, r) ELSE S1 IN
    IF S.fault # "none" THEN S
    ELSE IF modified_parents = {} THEN Reset(S)
    ELSE IF depth = 1 THEN Reset(ResetLeafChildren(S, r))
    ELSE Reset(resetChildrenLoop(S, r, modified_parents, 0, depth, max_depth))

\* resetModified(InnerNode& node, index, depth, max_depth)
resetModifiedAt(S, r, index, depth, max_depth) ==
    LET n == GetNode(S, r)
        Reset(S1) == IF S1.fault = "none" /\ depth <= max_depth
                     THEN SetNode(S1, r, [GetNode(S1, r) EXCEPT !.modified = @ \ {index}])
                     ELSE S1 IN
    IF S.fault # "none" THEN S
    ELSE IF index \in n.leaf \/ index \notin n.modified THEN Reset(S)
    ELSE IF n.children = nullptr THEN Fault(S, "null_deref")
    ELSE IF depth = 1 THEN Reset(ResetModifiedOf(S, ChildRef(S, r, index)))
    ELSE Reset(resetModifiedRecurs(S, ChildRef(S, r, index), depth - 1, max_depth))

\* resetModified(max_depth) on the whole map
resetModified(S, max_depth) ==
    resetModifiedAt(S, RootRef, rootIndex, rootDepth(S), max_depth)

\* the map without its modified bits
Stripped(S) ==
    [S EXCEPT !.root_.modified = NoBits,
              !.blocks = [b \in BlockIds |->
                             [i \in Indices |-> [S.blocks[b][i] EXCEPT !.modified = NoBits]]]]

\* resetModified(max_depth), with the map as it was before the call
ResetModified(max_depth) ==
    /\ Running
    /\ Becomes(resetModified(Cur, max_depth))
    /\ lastOp' = [op |-> "resetModified", code |-> 0, keep |-> FALSE,
                  depth |-> max_depth, clean |-> Clean(Cur), tree |-> Stripped(Cur)]
    /\ UNCHANGED <<alive, threads>>

\* apply, partial propagation and resetModified
NextReset ==
    \/ \E code \in {Code(0, 0), Code(80, 1)}, v \in WriteValues : Apply(code, v)
    \/ PropagateModified(FALSE, 1)
    \/ \E max_depth \in MaxDepths : ResetModified(max_depth)

SpecReset == Init /\ [][NextReset]_vars

\* the same, with setModified
NextResetMarked ==
    \/ NextReset
    \/ \E code \in SetModifiedCodes, min_depth \in SetModifiedDepths :
          SetModified(code, min_depth)

SpecResetMarked == Init /\ [][NextResetMarked]_vars

\* C33: after resetModified(max_depth) on the whole map no slot at a depth of
\* at most max_depth is modified, and no payload, no leaf bit, no child block
\* and no counter has changed
C33_ResetOnlyClears ==
    (lastOp.op = "resetModified" /\ fault = "none") =>
        /\ \A sl \in Slots(Cur) : sl[3] <= lastOp.depth => ~IsModifiedSlot(Cur, sl)
        /\ Stripped(Cur) = lastOp.tree

\* ------------------------------------------------------------------------
\* propagateModified runs to completion
\* ------------------------------------------------------------------------
\* the statements inside propagateModified
PropagatorRuns ==
    \/ PTopCheck
    \/ PTopLeafReset
    \/ PRecSnapshot
    \/ PRecChild
    \/ PUpdate
    \/ PDeallocate
    \/ PTopReset
    \/ PRecReset

\* the thread is inside the call and the process has not faulted: one of the
\* statements of PropagatorRuns is then enabled, and none is otherwise
PropagatorBusy == propagator.state = "running" /\ fault = "none"

\* a thread that is inside the call keeps executing its statements: weak
\* fairness of PropagatorRuns, with its enabling condition written out
SpecStepsFair ==
    SpecSteps /\ ([]<>(~PropagatorBusy) \/ []<><<PropagatorRuns>>_vars)

\* a call is made on a child node: a frame is pushed
Visits ==
    /\ propagator.state = "running"
    /\ propagator'.state = "running"
    /\ Len(propagator'.stack) = Len(propagator.stack) + 1

\* the frame that makes the call, before and after it
Caller == propagator.stack[Len(propagator.stack)]
CallerAfter == propagator'.stack[Len(propagator.stack)]
Callee == propagator'.stack[Len(propagator'.stack)]

\* the call is the one call for a modified non-leaf slot of the caller: the
\* top frame leaves its test for good, the loop of a recursive frame moves
\* past the slot, which it had not reached before
VisitsNextSlot ==
    IF Caller.fn = "top"
    THEN /\ Caller.pc = "check"
         /\ CallerAfter.pc = "update"
         /\ Callee.node = ChildRef(Cur, Caller.node, Caller.index)
    ELSE /\ CallerAfter.index > Caller.index
         /\ CallerAfter.index - 1 \in Caller.mp
         /\ CallerAfter.index - 1 >= Caller.index
         /\ Callee.node = ChildRef(Cur, Caller.node, CallerAfter.index - 1)

InnerParents(S) == {sl \in Slots(S) : sl[3] > 0 /\ ~IsLeafSlot(S, sl)}
InnerLeaves(S) == {sl \in Slots(S) : sl[3] > 0 /\ IsLeafSlot(S, sl)}
LeafSlots(S) == {sl \in Slots(S) : sl[3] = 0}

\* C35: after any sequence of apply, propagateModified and clear by one thread
\* the counters num_inner_nodes_, num_inner_leaf_nodes_ and num_leaf_nodes_
\* equal the numbers of inner slots with children, of inner slots without
\* children and of depth-0 slots of the tree
C35_CountersTrackTree ==
    Running =>
        /\ num_inner_nodes = Cardinality(InnerParents(Cur))
        /\ num_inner_leaf_nodes = Cardinality(InnerLeaves(Cur))
        /\ num_leaf_nodes = Cardinality(LeafSlots(Cur))

\* a propagation has pruned: below a split root an inner node has only leaf
\* slots again while its block of children is still attached, and the counters
\* are back at the numbers of the smaller tree
C35_Witness ==
    /\ Running
    /\ lastOp.op = "propagateModified"
    /\ num_inner_nodes >= 1
    /\ \E sl \in InnerLeaves(Cur) :
           /\ GetNode(Cur, sl[1]).leaf = AllBits
           /\ GetNode(Cur, sl[1]).children # nullptr

\* ------------------------------------------------------------------------
\* createInnerChildren(node, indices, depth) and createLeafChildren(node,
\* indices) called by one thread: the tree lock across a call
\* ------------------------------------------------------------------------
RECURSIVE createChildrenLoop(_, _, _, _, _)
\* "if (!node.children) allocate...Children(node)", then the loop
\* "for i in 0..7: if (indices[i]) child(node, i).fill(node, i)", the
\* counters and "node.leaf &= ~indices"
createChildrenLoop(S, r, indices, i, depth) ==
    IF i = 8 \/ S.fault # "none" THEN S
    ELSE IF i \notin indices THEN createChildrenLoop(S, r, indices, i + 1, depth)
    ELSE createChildrenLoop(IF depth = 1 THEN createLeafChildren(S, r, i)
                            ELSE createInnerChildren(S, r, i, depth),
                            r, indices, i + 1, depth)

\* the call as lockIfLeaf and unlock see it
CreateCall(r, depth) ==
    [IdleRacer EXCEPT !.fn = IF depth = 1 THEN "createLeafChildren"
                             ELSE "createInnerChildren",
                      !.node = r, !.depth = depth]

\* "if constexpr (UFOLock::NONE != Lock)" before lockIfLeaf in both functions
TakesTreeLock(th) == Lock # "NONE"

\* the test before unlock: "UFOLock::NONE != Lock" in createLeafChildren,
\* "UFOLock::DEPTH == Lock" in createInnerChildren
ReleasesTreeLock(th) ==
    IF th.fn = "createLeafChildren" THEN Lock # "NONE" ELSE Lock = "DEPTH"

\* the nodes the calls are made on, with their depth: the root and, once the
\* root is split, the child of the root slot
CreateTargets ==
    {<<RootRef, rootDepth(Cur)>>}
    \cup (IF rootIndex \in root_.leaf \/ root_.children = nullptr THEN {}
          ELSE {<<ChildRef(Cur, RootRef, rootIndex), rootDepth(Cur) - 1>>})

CreateIndices == {{0}, {1}, {0, 1}}

CreateBudgets == {0, 2}

CreateDone(S, lk, r, indices, depth, result) ==
    /\ Becomes(S)
    /\ locks' = lk
    /\ calls' = calls + 1
    /\ lastOp' = [op |-> "createChildren", code |-> 0, keep |-> FALSE, depth |-> depth,
                  clean |-> TRUE, node |-> r, indices |-> indices, result |-> result]
    /\ UNCHANGED <<alive, writer, propagator, overlap, Lock, racers>>

\* one call of createInnerChildren(node, indices, depth) (depth > 1) or
\* createLeafChildren(node, indices) (depth 1); operator new may throw
\* std::bad_alloc, which the caller catches
CreateChildren(r, indices, depth, budget) ==
    LET th == CreateCall(r, depth)
        \* indices &= node.leaf
        ind == indices \cap GetNode(Cur, r).leaf
        Left(Sx, lk) ==
            IF Sx.fault = "bad_alloc"
            THEN CreateDone([Sx EXCEPT !.fault = "none"], lk, r, indices, depth, "threw")
            ELSE CreateDone(Sx, IF ReleasesTreeLock(th) THEN SetTreeLock(lk, th, 0) ELSE lk,
                            r, indices, depth, "split")
        Strip(Sx) == [f \in DOMAIN Cur |-> Sx[f]] IN
    /\ Running
    /\ calls < MaxCalls
    /\ IF ind = {} THEN CreateDone(Cur, locks, r, indices, depth, "none")
       ELSE IF TakesTreeLock(th) /\ ~tryLock(TreeLock(locks, th))
       \* lockIfLeaf: the flag is set and no thread will clear it
       THEN CreateDone(Fault(Cur, "spins_forever"), locks, r, indices, depth, "spins")
       ELSE Left(Strip(createChildrenLoop(Cur @@ [alloc_budget |-> budget], r, ind, 0, depth)),
                 IF TakesTreeLock(th) THEN SetTreeLock(locks, th, 1) ELSE locks)

NextLocks ==
    \E target \in CreateTargets, indices \in CreateIndices, budget \in CreateBudgets :
        CreateChildren(target[1], indices, target[2], budget)

SpecLocks == InitRace /\ [][NextLocks]_vars

\* C36: in Depth and Node mode every tree lock taken inside
\* createInnerChildren or createLeafChildren is released when the call has
\* returned or thrown, so that no later split waits for it forever
C36_TreeLockReleased ==
    /\ locks.children_locks_ = Unlocked.children_locks_
    /\ locks.node_lock = Unlocked.node_lock
    /\ fault # "spins_forever"

\* ------------------------------------------------------------------------
\* propagateModified on a root slot that is modified and still a leaf
\* ------------------------------------------------------------------------
\* the code of the root slot, and codes below it
RootCode == Code(0, InitDepthLevels - 1)
RootCodes == {RootCode, Code(0, 0), Code(80, 1)}

\* propagateModified(keep_modified): what the root slot was before the call
PropagateRoot(keep_modified) ==
    /\ Running
    /\ Becomes(propagateModified(Cur, keep_modified, maxDepthLevels))
    /\ lastOp' = [op |-> "propagateRoot", code |-> 0, keep |-> keep_modified,
                  depth |-> maxDepthLevels, clean |-> TRUE,
                  wasLeaf |-> rootIndex \in root_.leaf,
                  wasModified |-> rootIndex \in root_.modified]
    /\ UNCHANGED <<alive, threads>>

NextRoot ==
    \/ \E code \in RootCodes, v \in WriteValues : Apply(code, v)
    \/ \E min_depth \in SetModifiedDepths : SetModified(RootCode, min_depth)
    \/ \E keep_modified \in BOOLEAN : PropagateRoot(keep_modified)

SpecRoot == Init /\ [][NextRoot]_vars

\* C37: propagateModified does not follow the child pointer of a slot whose
\* leaf bit is set: called while the root slot is modified and a leaf, it
\* returns without touching a child block and, unless keep_modified, with the
\* root's modified bit cleared
C37_LeafRootCleared ==
    (lastOp.op = "propagateRoot" /\ lastOp.wasLeaf /\ lastOp.wasModified)
        => /\ fault = "none"
           /\ lastOp.keep \/ rootIndex \notin root_.modified

\* ------------------------------------------------------------------------
\* Two threads in apply at the same time, statement by statement; the calls
\* of createInnerChildren and createLeafChildren run as in the section on
\* racing threads
\* ------------------------------------------------------------------------
\* the codes of the two threads: their paths share the root slot and the
\* node below it
ApplierCodes(t) == IF t = 1 THEN {Code(0, 0)} ELSE {Code(8, 0), Code(8, 1)}

ApplierAt(t, pc) == Running /\ writer[t].pc = pc /\ racers[t].pc = "idle"

ApplierStep(t, S, w, th) ==
    /\ Becomes(S)
    /\ writer' = [writer EXCEPT ![t] = w]
    /\ racers' = [racers EXCEPT ![t] = th]
    /\ UNCHANGED <<alive, lastOp, propagator, overlap, calls, Lock, locks>>

\* a statement of apply that reads or writes *cur
OnCur(t, S, w, th) ==
    IF Dangling(Cur, writer[t].cur)
    THEN ApplierStep(t, Fault(Cur, "use_after_free"), writer[t], racers[t])
    ELSE ApplierStep(t, S, w, th)

CurIndex(t) == CodeIndex(writer[t].code, writer[t].depth)

\* the call create...Children(*cur, index, depth) is entered
Enter(t, fn) ==
    [pc |-> "begin", fn |-> fn, node |-> writer[t].cur, index |-> CurIndex(t),
     depth |-> writer[t].depth]

\* apply(root(), rootDepth(), code, f, f2) is entered
ABegin(t, code, v) ==
    /\ ApplierAt(t, "idle")
    /\ ApplierStep(t, Cur, [pc |-> "descend", code |-> code, v |-> v, cur |-> RootRef,
                            depth |-> rootDepth(Cur)], racers[t])

\* while (min_depth != depth) { createInnerChildren(*cur, index, depth);
ADescend(t) ==
    /\ ApplierAt(t, "descend")
    /\ Max(CodeDepth(writer[t].code), 1) # writer[t].depth
    /\ ApplierStep(t, Cur, [writer[t] EXCEPT !.pc = "mark"], Enter(t, "createInnerChildren"))

\* cur->modified[index] = true; cur = &innerChild(*cur, index); --depth; }
AMark(t) ==
    /\ ApplierAt(t, "mark")
    /\ IF GetNode(Cur, writer[t].cur).children = nullptr
       THEN OnCur(t, Fault(Cur, "null_deref"), writer[t], racers[t])
       ELSE OnCur(t, SetModifiedBit(Cur, writer[t].cur, CurIndex(t)),
                  [writer[t] EXCEPT !.pc = "descend",
                                    !.cur = ChildRef(Cur, writer[t].cur, CurIndex(t)),
                                    !.depth = @ - 1],
                  racers[t])

\* the target is reached: createLeafChildren, f(*cur, index) or applyAllRecurs
ATarget(t) ==
    /\ ApplierAt(t, "descend")
    /\ Max(CodeDepth(writer[t].code), 1) = writer[t].depth
    /\ IF CodeDepth(writer[t].code) = 0
       THEN ApplierStep(t, Cur, [writer[t] EXCEPT !.pc = "leafmark"],
                        Enter(t, "createLeafChildren"))
       ELSE IF CurIndex(t) \in GetNode(Cur, writer[t].cur).leaf
       THEN OnCur(t, SetNode(Cur, writer[t].cur,
                             ApplyF(GetNode(Cur, writer[t].cur), CurIndex(t), writer[t].v)),
                  [writer[t] EXCEPT !.pc = "finalmark"], racers[t])
       ELSE OnCur(t, applyAllRecurs(Cur, writer[t].cur, {CurIndex(t)}, writer[t].depth,
                                    writer[t].v),
                  [writer[t] EXCEPT !.pc = "finalmark"], racers[t])

\* cur->modified[index] = true;   (the depth-0 branch)
ALeafMark(t) ==
    /\ ApplierAt(t, "leafmark")
    /\ OnCur(t, SetModifiedBit(Cur, writer[t].cur, CurIndex(t)),
             [writer[t] EXCEPT !.pc = "write"], racers[t])

\* LeafNode& child = leafChild(*cur, index); f(child, child_index);
\* child.modified[child_index] = true; return
AWrite(t) ==
    LET child == ChildRef(Cur, writer[t].cur, CurIndex(t))
        child_index == CodeIndex(writer[t].code, 0) IN
    /\ ApplierAt(t, "write")
    /\ IF GetNode(Cur, writer[t].cur).children = nullptr
       THEN OnCur(t, Fault(Cur, "null_deref"), writer[t], racers[t])
       ELSE OnCur(t, SetModifiedBit(SetNode(Cur, child,
                                           ApplyF(GetNode(Cur, child), child_index,
                                                  writer[t].v)),
                                   child, child_index),
                  [writer[t] EXCEPT !.pc = "done"], racers[t])

\* cur->modified[index] = true; return   (the inner branches)
AFinalMark(t) ==
    /\ ApplierAt(t, "finalmark")
    /\ OnCur(t, SetModifiedBit(Cur, writer[t].cur, CurIndex(t)),
             [writer[t] EXCEPT !.pc = "done"], racers[t])

NextAppliers ==
    \/ \E t \in Threads : \E code \in ApplierCodes(t), v \in WriteValues : ABegin(t, code, v)
    \/ \E t \in Threads : ADescend(t)
    \/ \E t \in Threads : AMark(t)
    \/ \E t \in Threads : ATarget(t)
    \/ \E t \in Threads : ALeafMark(t)
    \/ \E t \in Threads : AWrite(t)
    \/ \E t \in Threads : AFinalMark(t)
    \/ \E t \in Threads : Begin(t)
    \/ \E t \in Threads : LockIfLeaf(t)
    \/ \E t \in Threads : TestAndSet(t)
    \/ \E t \in Threads : Recheck(t)
    \/ \E t \in Threads : TestLeaf(t)
    \/ \E t \in Threads : TestChildren(t)
    \/ \E t \in Threads : AllocateChildren(t)
    \/ \E t \in Threads : NewChildren(t)
    \/ \E t \in Threads : FillChild(t)
    \/ \E t \in Threads : ClearLeaf(t)
    \/ \E t \in Threads : Unlock(t)

\* a fresh map of the smallest depth, a lock mode, two idle threads
InitAppliers ==
    /\ root_ = initRoot(DefaultNode)
    /\ blocks = [b \in BlockIds |-> DefaultBlock]
    /\ owner = [b \in BlockIds |-> "sys"]
    /\ free_inner_blocks = <<>>
    /\ free_leaf_blocks = <<>>
    /\ num_inner_nodes = 0
    /\ num_inner_leaf_nodes = 1
    /\ num_leaf_nodes = 0
    /\ depth_levels = ConcDepthLevels
    /\ automatic_prune \in BOOLEAN
    /\ ReuseNodes \in BOOLEAN
    /\ fault = "none"
    /\ alive = TRUE
    /\ lastOp = NoOp
    /\ writer = [t \in Threads |-> IdleWriter]
    /\ propagator = IdlePropagator
    /\ overlap = NoOverlap
    /\ calls = 0
    /\ Lock \in LockModes
    /\ locks = Unlocked
    /\ racers = [t \in Threads |-> IdleRacer]

SpecAppliers == InitAppliers /\ [][NextAppliers]_vars

\* the write of a thread is in the tree: the path of its code is split down
\* to the target, the target holds the payload, and the target and its
\* ancestors are modified
Applied(t) ==
    LET path == PathSlots(Cur, RootRef, rootDepth(Cur), writer[t].code)
        sl == TargetSlot(Cur, writer[t].code) IN
    /\ sl[3] = CodeDepth(writer[t].code)
    /\ GetNode(Cur, sl[1]).val[sl[2]] = writer[t].v
    /\ \A p \in path : IsModifiedSlot(Cur, p)

BothDone == \A t \in Threads : writer[t].pc = "done"

\* C38: in Depth and Node mode, when two threads have applied to two codes
\* whose paths share inner nodes, no update is lost: both paths are split to
\* their targets, both payloads are in the tree, both targets and all their
\* ancestors are modified
C38_NoLostUpdate ==
    (Lock # "NONE" /\ BothDone) => (fault = "none" /\ \A t \in Threads : Applied(t))

\* the same in Depth mode only
C38_NoLostUpdateDepth ==
    (Lock = "DEPTH" /\ BothDone) => (fault = "none" /\ \A t \in Threads : Applied(t))

\* ------------------------------------------------------------------------
\* siblingChecked
\* ------------------------------------------------------------------------
\* C39: siblingChecked(node, sibling_index) raises an error exactly when the
\* node is the root or sibling_index > 7; for every other node and every
\* index in 0..7 it returns the sibling
C39_SiblingOfNonRoot ==
    lastOp.op = "siblingChecked" =>
        IF isRoot(Cur, lastOp.code) \/ lastOp.arg > 7
        THEN lastOp.result.kind = "out_of_range"
        ELSE lastOp.result = [kind |-> "node",
                              code |-> CodeSibling(lastOp.code, lastOp.arg)]

\* ------------------------------------------------------------------------
\* clear(leaf_size, depth_levels, prune)
\* ------------------------------------------------------------------------
\* clear(leaf_size, depth_levels, prune): deleteChildren(root(), rootDepth(),
\* prune); setNodeSizeAndDepthLevels(leaf_size, depth_levels); initRoot()
clearLevels(S, levels, prune_memory) ==
    LET Sized(S2) == IF S2.fault # "none" THEN S2
                     ELSE [S2 EXCEPT !.root_ = initRootData(initRoot(@))]
        Deleted(S1) == IF S1.fault # "none" THEN S1
                       ELSE Sized(setNodeSizeAndDepthLevels(S1, levels)) IN
    Deleted(deleteChildren(S, RootRef, AllBits \ S.root_.leaf, rootDepth(S), prune_memory))

\* the slots of the tree with their payloads
TreeContents(S) == [sl \in Slots(S) |-> GetNode(S, sl[1]).val[sl[2]]]

\* the numbers of levels clear is called with: below the range, in it, above
ClearLevelsArgs == {minDepthLevels - 1, minDepthLevels, InitDepthLevels, maxDepthLevels + 1}

\* codes that lie in a map of minDepthLevels and in one of InitDepthLevels
ClearCodes == {Code(0, 0), Code(8, 0), Code(0, 1)}

\* clear(leaf_size, depth_levels, prune); the caller catches the exception
ClearLevels(levels, prune_memory) ==
    LET Left(Sx) ==
            /\ Becomes([Sx EXCEPT !.fault = IF @ = "invalid_argument" THEN "none" ELSE @])
            /\ lastOp' = [op |-> "clearLevels", code |-> 0, keep |-> prune_memory,
                          depth |-> levels, clean |-> TRUE,
                          result |-> IF Sx.fault = "none" THEN "cleared" ELSE Sx.fault,
                          before |-> TreeContents(Cur), levels_before |-> depth_levels] IN
    /\ Running
    /\ Left(clearLevels(Cur, levels, prune_memory))
    /\ UNCHANGED <<alive, threads>>

NextClear ==
    \/ \E code \in ClearCodes, v \in WriteValues : Apply(code, v)
    \/ \E levels \in ClearLevelsArgs, prune_memory \in BOOLEAN :
            ClearLevels(levels, prune_memory)

SpecClear == Init /\ [][NextClear]_vars

\* C40: clear(leaf_size, depth_levels, prune) with depth_levels outside
\* [3, 22] fails and leaves the map as it was: the same slots with the same
\* payloads and the same number of depth levels
C40_FailedClearKeepsMap ==
    (lastOp.op = "clearLevels"
        /\ (lastOp.depth < minDepthLevels \/ lastOp.depth > maxDepthLevels))
        => /\ lastOp.result = "invalid_argument"
           /\ depth_levels = lastOp.levels_before
           /\ TreeContents(Cur) = lastOp.before

====
